---- MODULE Spec2Model ----
(***************************************************************************)
(* Control logic of the corrective RAG chatbot (yundoun/rag-chatbot):      *)
(* the routing policy (src/core/edges.py), the HITL trigger                *)
(* (src/agents/hitl_controller.py), the correction predicate               *)
(* (src/rag/corrective_engine.py) and the orchestrator with its registry   *)
(* of pending sessions (src/core/orchestrator.py, src/core/nodes.py,       *)
(* src/api/routes/chat.py).                                                *)
(*                                                                         *)
(* Conventions.  Scores in [0,1] (avg_relevance, clarity_confidence, ...)  *)
(* are integers in tenths, so 0.8 is 8.  A Python dict is a function       *)
(* whose DOMAIN is the set of keys present; dict.get(k, d) is Get.  Text   *)
(* is a sequence of one-character strings, so that strip() and string      *)
(* concatenation are computed and not assumed.                             *)
(***************************************************************************)
EXTENDS Integers, Sequences, FiniteSets, TLC

VARIABLES
    hitl_disabled,      \* hitl_controller.py:49-50 is present ("HITL 비활성화")
    fn,                 \* last direct call of a pure function: name, args, ret
    pending_sessions,   \* RAGOrchestrator._pending_sessions
    call,               \* the process_query / API request being served
    loop,               \* a CorrectiveEngine.run_correction_loop call in progress
    par,                \* an AgenticController.execute_parallel_retrieval call
    requests            \* the coroutines of concurrent requests on the event loop

vars == <<hitl_disabled, fn, pending_sessions, call, loop, par, requests>>

----------------------------------------------------------------------------
(* Bounds of the model *)

\* largest count (retry_count, interaction_count, *_relevance_count) drawn
MaxCount == 3
\* largest number of documents one retrieval or web search returns
MaxDocs == 2
\* sub-questions of one decomposition
MaxQuestions == 3
(* Settings: src/config/settings.py *)
relevance_threshold == 5
min_high_relevance_docs == 1
max_correction_retries == 2
max_hitl_interactions == 2

\* hitl_controller.py:60, the clarity below which clarification is asked
CLARITY_THRESHOLD == 8

Scores == 0..10
Counts == 0..MaxCount

----------------------------------------------------------------------------
(* Python dictionaries *)

Get(d, k, default) == IF k \in DOMAIN d THEN d[k] ELSE default

\* {**a, **b}
Merge(a, b) ==
    [k \in (DOMAIN a) \cup (DOMAIN b) |-> IF k \in DOMAIN b THEN b[k] ELSE a[k]]

Restrict(d, keys) == [k \in keys |-> d[k]]

----------------------------------------------------------------------------
(* Routing policy: src/core/edges.py *)

route_after_analysis_no_limit(state) ==
    LET clarification_needed == Get(state, "clarification_needed", FALSE)
        complexity == Get(state, "complexity", "simple")
    IN  IF clarification_needed THEN "clarify"
        ELSE IF complexity = "complex" THEN "decompose"
        ELSE "retrieve"

route_after_analysis(state) ==
    LET clarification_needed == Get(state, "clarification_needed", FALSE)
        complexity == Get(state, "complexity", "simple")
        interaction_count == Get(state, "interaction_count", 0)
        max_interactions == max_hitl_interactions
    IN  IF clarification_needed /\ interaction_count < max_interactions
        THEN "clarify"
        ELSE IF complexity = "complex" THEN "decompose"
        ELSE "retrieve"

route_after_hitl_response(state) ==
    LET complexity == Get(state, "complexity", "simple")
    IN  IF complexity = "complex" THEN "decompose" ELSE "retrieve"

\* the disabled policy kept as a comment at edges.py:82-112
route_after_evaluation_strict(state) ==
    LET retrieved_docs == Get(state, "retrieved_docs", <<>>)
        avg_relevance == Get(state, "avg_relevance", 0)
        high_count == Get(state, "high_relevance_count", 0)
        medium_count == Get(state, "medium_relevance_count", 0)
        retry_count == Get(state, "retry_count", 0)
    IN  IF high_count >= min_high_relevance_docs THEN "generate"
        ELSE IF avg_relevance >= relevance_threshold THEN "generate"
        ELSE IF medium_count >= 1 /\ Len(retrieved_docs) > 0 /\ avg_relevance >= 3
             THEN "generate"
        ELSE IF retry_count < max_correction_retries THEN "rewrite"
        ELSE "web_search"

\* a policy that rewrites whenever nothing was retrieved, with no retry limit
route_after_evaluation_unbounded(state) ==
    LET retrieved_docs == Get(state, "retrieved_docs", <<>>)
    IN  IF Len(retrieved_docs) > 0 THEN "generate" ELSE "rewrite"

route_after_evaluation(state) ==
    LET retrieved_docs == Get(state, "retrieved_docs", <<>>)
    IN  IF Len(retrieved_docs) > 0 THEN "generate" ELSE "web_search"

----------------------------------------------------------------------------
(* HITL trigger: src/agents/hitl_controller.py *)

should_clarify_no_limit(clarity_confidence, is_ambiguous, interaction_count) ==
    is_ambiguous \/ clarity_confidence < CLARITY_THRESHOLD

\* Line 50 returns False before the decision of lines 52-63 is reached;
\* hitl_disabled = FALSE is the controller with lines 49-50 removed.
should_clarify(clarity_confidence, is_ambiguous, interaction_count) ==
    IF hitl_disabled THEN FALSE
    ELSE IF interaction_count >= max_hitl_interactions THEN FALSE
    ELSE IF is_ambiguous THEN TRUE
    ELSE IF clarity_confidence < CLARITY_THRESHOLD THEN TRUE
    ELSE FALSE

----------------------------------------------------------------------------
(* Correction predicate: src/rag/corrective_engine.py *)

\* CorrectiveEngine.__init__: "x or default" replaces a falsy (0) argument
CorrectiveEngineInit(max_retries, min_high) ==
    [max_retries |-> IF max_retries # 0 THEN max_retries
                     ELSE max_correction_retries,
     min_high_relevance_docs |-> IF min_high # 0 THEN min_high
                                 ELSE min_high_relevance_docs,
     relevance_threshold |-> relevance_threshold]

should_correct_no_limit(self, state) ==
    LET avg_relevance == Get(state, "avg_relevance", 0)
        high_count == Get(state, "high_relevance_count", 0)
    IN  high_count < self.min_high_relevance_docs
        /\ avg_relevance < self.relevance_threshold

\* `>` in place of `>=`: one retry too many
should_correct_off_by_one(self, state) ==
    LET avg_relevance == Get(state, "avg_relevance", 0)
        high_count == Get(state, "high_relevance_count", 0)
        retry_count == Get(state, "retry_count", 0)
    IN  IF retry_count > self.max_retries THEN FALSE
        ELSE IF high_count < self.min_high_relevance_docs
                /\ avg_relevance < self.relevance_threshold THEN TRUE
        ELSE FALSE

\* `or` in place of `and` in the relevance test
should_correct_either(self, state) ==
    LET avg_relevance == Get(state, "avg_relevance", 0)
        high_count == Get(state, "high_relevance_count", 0)
        retry_count == Get(state, "retry_count", 0)
    IN  IF retry_count >= self.max_retries THEN FALSE
        ELSE IF high_count < self.min_high_relevance_docs
                \/ avg_relevance < self.relevance_threshold THEN TRUE
        ELSE FALSE

\* a limit reached one retry early
should_correct_early_stop(self, state) ==
    LET avg_relevance == Get(state, "avg_relevance", 0)
        high_count == Get(state, "high_relevance_count", 0)
        retry_count == Get(state, "retry_count", 0)
    IN  IF retry_count + 1 >= self.max_retries THEN FALSE
        ELSE IF high_count < self.min_high_relevance_docs
                /\ avg_relevance < self.relevance_threshold THEN TRUE
        ELSE FALSE

should_correct(self, state) ==
    LET avg_relevance == Get(state, "avg_relevance", 0)
        high_count == Get(state, "high_relevance_count", 0)
        retry_count == Get(state, "retry_count", 0)
    IN  IF retry_count >= self.max_retries THEN FALSE
        ELSE IF high_count < self.min_high_relevance_docs
                /\ avg_relevance < self.relevance_threshold THEN TRUE
        ELSE FALSE

----------------------------------------------------------------------------
(* Text: a sequence of one-character strings *)

RECURSIVE lstrip(_)
lstrip(s) == IF s # <<>> /\ Head(s) = " " THEN lstrip(Tail(s)) ELSE s

RECURSIVE rstrip(_)
rstrip(s) ==
    IF s # <<>> /\ s[Len(s)] = " " THEN rstrip(SubSeq(s, 1, Len(s) - 1)) ELSE s

\* str.strip()
strip(s) == rstrip(lstrip(s))

\* empty, whitespace-only and non-blank queries
Queries == {<<>>, <<" ">>, <<" ", " ">>, <<"a">>, <<" ", "b">>}
SessionIds == {"s1", "s2"}
\* "m" is the first default option of a multiple_interpretation clarification
UserResponses == {<<>>, <<"m">>}

EmptyDict == [k \in {} |-> 0]
\* dict.get in place of dict.pop: the entry stays
PopKeep(d, k) == d
Pop(d, k) == [x \in (DOMAIN d) \ {k} |-> d[x]]
Put(d, k, v) == [x \in (DOMAIN d) \cup {k} |-> IF x = k THEN v ELSE d[x]]

\* a call that returns a value, a call that raises
Ok(v) == [raised |-> "none", value |-> v]
Raise(e) == [raised |-> e, value |-> EmptyDict]

----------------------------------------------------------------------------
(* RAGState: src/core/state.py.  None is the empty text / empty list. *)

create_initial_state(query, session_id) ==
    [query |-> query, session_id |-> session_id, refined_query |-> <<>>,
     complexity |-> "simple", clarity_confidence |-> 0, is_ambiguous |-> FALSE,
     ambiguity_type |-> "None",
     clarification_needed |-> FALSE, clarification_question |-> "None",
     clarification_options |-> <<>>, user_response |-> <<>>,
     interaction_count |-> 0,
     retrieved_docs |-> <<>>, relevance_scores |-> <<>>, avg_relevance |-> 0,
     high_relevance_count |-> 0,
     retry_count |-> 0, rewritten_queries |-> <<>>, correction_triggered |-> FALSE,
     sub_questions |-> <<>>, parallel_groups |-> <<>>,
     web_search_triggered |-> FALSE, web_results |-> <<>>, web_confidence |-> 0,
     generated_response |-> <<>>, response_confidence |-> 0,
     needs_disclaimer |-> FALSE,
     total_llm_calls |-> 0, error_log |-> <<>>, current_node |-> "start"]

----------------------------------------------------------------------------
(* Collaborators.  Every call of a collaborator gets its outcome from the  *)
(* environment: a record with ok = FALSE when the call fails.              *)

Document(e) == [embedding_score |-> e]
DocLists == UNION { [1..n -> {Document(2), Document(8)}] : n \in 0..MaxDocs }

\* what the vector store returns, best match first, or a failure
VectorResults ==
    { [ok |-> TRUE, docs |-> ds] :
        ds \in { d \in DocLists :
                   \A i \in 1..(Len(d) - 1) :
                       d[i].embedding_score >= d[i + 1].embedding_score } }
    \cup { [ok |-> FALSE, docs |-> <<>>] }

\* the model's answer of the query analysis prompt, or a failure
Analyses ==
    { [ok |-> TRUE, refined_query |-> <<"r">>, complexity |-> "simple",
       clarity_confidence |-> 9, is_ambiguous |-> FALSE, ambiguity_type |-> "None"],
      [ok |-> TRUE, refined_query |-> <<>>, complexity |-> "complex",
       clarity_confidence |-> 9, is_ambiguous |-> FALSE, ambiguity_type |-> "None"],
      [ok |-> TRUE, refined_query |-> <<>>, complexity |-> "simple",
       clarity_confidence |-> 8, is_ambiguous |-> FALSE, ambiguity_type |-> "None"],
      [ok |-> TRUE, refined_query |-> <<>>, complexity |-> "simple",
       clarity_confidence |-> 7, is_ambiguous |-> FALSE, ambiguity_type |-> "None"],
      [ok |-> TRUE, refined_query |-> <<"r">>, complexity |-> "simple",
       clarity_confidence |-> 9, is_ambiguous |-> TRUE,
       ambiguity_type |-> "vague_term"],
      [ok |-> TRUE, refined_query |-> <<>>, complexity |-> "complex",
       clarity_confidence |-> 4, is_ambiguous |-> TRUE,
       ambiguity_type |-> "multiple_interpretation"],
      [ok |-> FALSE, refined_query |-> <<>>, complexity |-> "simple",
       clarity_confidence |-> 0, is_ambiguous |-> FALSE, ambiguity_type |-> "None"] }

\* the model's relevance score of one document, or a failure
RelevanceAnswers ==
    { [ok |-> TRUE, relevance_score |-> 1], [ok |-> TRUE, relevance_score |-> 7],
      [ok |-> FALSE, relevance_score |-> 0] }

\* the rewriter's new query, or a failure
RewriteAnswers ==
    { [ok |-> TRUE, rewritten_query |-> <<"w">>], [ok |-> FALSE, rewritten_query |-> <<>>] }

\* what the web search agent returns (combined scores), or a failure
WebAnswers ==
    { [ok |-> TRUE, docs |-> <<>>], [ok |-> TRUE, docs |-> <<[combined_score |-> 6]>>],
      [ok |-> FALSE, docs |-> <<>>] }

\* the model's answer text, or a failure
ResponseAnswers ==
    { [ok |-> TRUE, response |-> <<"A">>], [ok |-> TRUE, response |-> <<>>],
      [ok |-> FALSE, response |-> <<>>] }

\* the model's quality evaluation, or a failure
QualityAnswers ==
    { [ok |-> TRUE, completeness |-> 9, accuracy |-> 9, clarity |-> 9, confidence |-> 9],
      [ok |-> TRUE, completeness |-> 5, accuracy |-> 9, clarity |-> 9, confidence |-> 9],
      [ok |-> FALSE, completeness |-> 0, accuracy |-> 0, clarity |-> 0, confidence |-> 0] }

\* OpenAIProvider.generate_structured(prompt, response_model, ...) has no
\* parameter output_schema: the calls that pass output_schema= raise TypeError
KeywordError == [ok |-> FALSE]

----------------------------------------------------------------------------
(* Collaborator wrappers *)

\* QueryProcessor.analyze: validation, then the model's structured answer
analyze_no_validation(query, llm) ==
    IF ~llm.ok THEN Raise("LLMException") ELSE Ok(llm)

analyze(query, llm) ==
    IF query = <<>> \/ strip(query) = <<>> THEN Raise("ValidationException")
    ELSE IF ~llm.ok THEN Raise("LLMException")
    ELSE Ok(llm)

\* DocumentRetriever.retrieve: an empty result raises NoResultsException
retrieve(vector) ==
    IF ~vector.ok THEN Raise("VectorStoreException")
    ELSE IF vector.docs = <<>> THEN Raise("NoResultsException")
    ELSE Ok(vector.docs)

\* RelevanceEvaluator._score_to_level (0.6 and 0.3 in tenths)
score_to_level(score) ==
    IF score >= 6 THEN "high" ELSE IF score >= 3 THEN "medium" ELSE "low"

\* RelevanceEvaluator.evaluate: embedding pre-filter (0.3), then the model
evaluate(document, llm) ==
    IF document.embedding_score < 3
    THEN Ok([relevance_score |-> document.embedding_score, relevance_level |-> "low"])
    ELSE IF ~llm.ok THEN Raise("LLMException")
    ELSE Ok([relevance_score |-> llm.relevance_score,
             relevance_level |-> score_to_level(llm.relevance_score)])

\* RelevanceEvaluator.evaluate_batch: one document after the other
RECURSIVE evaluate_batch(_, _)
evaluate_batch(documents, llms) ==
    IF documents = <<>> THEN Ok(<<>>)
    ELSE LET first == evaluate(Head(documents), Head(llms))
         IN  IF first.raised # "none" THEN first
             ELSE LET rest == evaluate_batch(Tail(documents), Tail(llms))
                  IN  IF rest.raised # "none" THEN rest
                      ELSE Ok(<<first.value>> \o rest.value)

RECURSIVE SumScores(_)
SumScores(evaluations) ==
    IF evaluations = <<>> THEN 0
    ELSE Head(evaluations).relevance_score + SumScores(Tail(evaluations))

CountLevel(evaluations, level) ==
    Cardinality({ i \in DOMAIN evaluations : evaluations[i].relevance_level = level })

\* RelevanceEvaluator.calculate_metrics; the average is kept in whole tenths
\* (rounded down), which decides every comparison with a threshold in tenths
calculate_metrics(evaluations) ==
    IF evaluations = <<>>
    THEN [avg_relevance |-> 0, high_relevance_count |-> 0,
          medium_relevance_count |-> 0, low_relevance_count |-> 0,
          sufficient |-> FALSE]
    ELSE LET threshold == relevance_threshold
             high_count == CountLevel(evaluations, "high")
             medium_count == CountLevel(evaluations, "medium")
             low_count == CountLevel(evaluations, "low")
             avg == SumScores(evaluations) \div Len(evaluations)
         IN  [avg_relevance |-> avg, high_relevance_count |-> high_count,
              medium_relevance_count |-> medium_count,
              low_relevance_count |-> low_count,
              sufficient |-> (high_count >= 1
                              \/ (medium_count >= 1 /\ avg >= threshold)
                              \/ avg >= threshold)]

\* QualityEvaluator.evaluate; confidence is returned in hundredths
quality_evaluate(response, llm) ==
    IF response = <<>> \/ strip(response) = <<>>
    THEN Ok([confidence |-> 0, needs_disclaimer |-> TRUE])
    ELSE IF ~llm.ok THEN Raise("LLMException")
    ELSE LET calculated == 4 * llm.completeness + 4 * llm.accuracy + 2 * llm.clarity
             given == 10 * llm.confidence
             diff == IF given >= calculated THEN given - calculated
                     ELSE calculated - given
             confidence == IF diff > 10 THEN calculated ELSE given
         IN  Ok([confidence |-> confidence,
                 needs_disclaimer |-> (confidence < 80 \/ llm.completeness < 6
                                       \/ llm.accuracy < 7)])

\* HITLController._get_default_options / _get_default_clarification
get_default_options(ambiguity_type) ==
    IF ambiguity_type = "multiple_interpretation" THEN << <<"m">>, <<"n">>, <<"o">> >>
    ELSE IF ambiguity_type = "missing_context" THEN << <<"c">>, <<"d">>, <<"e">> >>
    ELSE IF ambiguity_type = "vague_term" THEN << <<"v">>, <<"w">>, <<"x">> >>
    ELSE << <<"g">>, <<"h">>, <<"i">> >>

get_default_clarification(ambiguity_type) ==
    [clarification_question |->
        IF ambiguity_type \in {"multiple_interpretation", "missing_context",
                               "vague_term"}
        THEN ambiguity_type ELSE "general",
     options |-> get_default_options(ambiguity_type)]

\* HITLController.generate_clarification: the model's answer or the default
generate_clarification(ambiguity_type, llm) ==
    IF llm.ok
    THEN [clarification_question |-> llm.clarification_question,
          options |-> SubSeq(llm.options, 1, IF Len(llm.options) < 5
                                              THEN Len(llm.options) ELSE 5)]
    ELSE get_default_clarification(ambiguity_type)

\* HITLController.refine_query: the model's answer or "{original} ({response})"
\* a fallback that returns the original query alone
refine_query_original_only(original_query, user_response, llm) ==
    IF llm.ok THEN llm.refined_query ELSE original_query

refine_query(original_query, user_response, llm) ==
    LET response_text ==
            IF user_response.custom_input # <<>> THEN user_response.custom_input
            ELSE user_response.selected_option
    IN  IF llm.ok THEN llm.refined_query
        ELSE original_query \o <<" ", "(">> \o response_text \o <<")">>

\* AgenticController._create_simple_decomposition
create_simple_decomposition(query) ==
    [sub_questions |-> <<[id |-> "q1", question |-> query, dependencies |-> <<>>]>>,
     parallel_groups |-> << <<"q1">> >>]

Range(seq) == { seq[i] : i \in DOMAIN seq }
Ids(questions) == [i \in DOMAIN questions |-> questions[i].id]

\* the while loop of AgenticController._create_default_parallel_groups
RECURSIVE group_loop(_, _, _)
group_loop(groups, processed, remaining) ==
    IF remaining = <<>> THEN groups
    ELSE LET IsReady(q) == \A i \in DOMAIN q.dependencies :
                               q.dependencies[i] \in processed
             ready == Ids(SelectSeq(remaining, IsReady))
             done == processed \cup Range(ready)
             NotDone(q) == q.id \notin done
         IN  IF ready = <<>> THEN Append(groups, Ids(remaining))
             ELSE group_loop(Append(groups, ready), done,
                             SelectSeq(remaining, NotDone))

\* without the level by level loop: the questions with dependencies make one wave
create_default_parallel_groups_two_waves(sub_questions) ==
    LET NoDeps(q) == q.dependencies = <<>>
        HasDeps(q) == q.dependencies # <<>>
        no_deps == Ids(SelectSeq(sub_questions, NoDeps))
        rest == Ids(SelectSeq(sub_questions, HasDeps))
    IN  (IF no_deps # <<>> THEN <<no_deps>> ELSE <<>>)
        \o (IF rest # <<>> THEN <<rest>> ELSE <<>>)

\* the questions without dependencies are not taken out of the remaining ones
create_default_parallel_groups_twice(sub_questions) ==
    LET NoDeps(q) == q.dependencies = <<>>
        no_deps == Ids(SelectSeq(sub_questions, NoDeps))
        groups == IF no_deps # <<>> THEN <<no_deps>> ELSE <<>>
    IN  group_loop(groups, Range(no_deps), sub_questions)

\* AgenticController._create_default_parallel_groups
create_default_parallel_groups(sub_questions) ==
    LET NoDeps(q) == q.dependencies = <<>>
        no_deps == Ids(SelectSeq(sub_questions, NoDeps))
        groups == IF no_deps # <<>> THEN <<no_deps>> ELSE <<>>
        processed == Range(no_deps)
        NotProcessed(q) == q.id \notin processed
    IN  group_loop(groups, processed, SelectSeq(sub_questions, NotProcessed))

\* a single sub-question is accepted as a decomposition
decompose_query_accept_one(query, llm) ==
    IF ~llm.ok THEN create_simple_decomposition(query)
    ELSE IF Len(llm.sub_questions) < 1 THEN create_simple_decomposition(query)
    ELSE [sub_questions |-> llm.sub_questions,
          parallel_groups |->
              IF llm.parallel_groups = <<>>
              THEN create_default_parallel_groups(llm.sub_questions)
              ELSE llm.parallel_groups]

\* AgenticController.decompose_query
decompose_query(query, llm) ==
    IF ~llm.ok THEN create_simple_decomposition(query)
    ELSE IF Len(llm.sub_questions) < 2 THEN create_simple_decomposition(query)
    ELSE [sub_questions |-> llm.sub_questions,
          parallel_groups |->
              IF llm.parallel_groups = <<>>
              THEN create_default_parallel_groups(llm.sub_questions)
              ELSE llm.parallel_groups]

----------------------------------------------------------------------------
(* Nodes: src/core/nodes.py.  A node maps the state and the outcomes of    *)
(* its collaborator calls to the delta it returns, or raises.              *)

NodeNames ==
    {"analyze_query", "clarify_hitl", "process_hitl_response", "decompose_query",
     "retrieve", "evaluate_relevance", "rewrite_query", "web_search",
     "generate_response", "evaluate_quality"}

analyze_query_node(state, llm) ==
    LET analysis == analyze(state.query, llm)
    IN  IF analysis.raised # "none" THEN analysis
        ELSE LET a == analysis.value
             IN  Ok([refined_query |-> IF a.refined_query # <<>> THEN a.refined_query
                                       ELSE state.query,
                     complexity |-> a.complexity,
                     clarity_confidence |-> a.clarity_confidence,
                     is_ambiguous |-> a.is_ambiguous,
                     ambiguity_type |-> a.ambiguity_type,
                     clarification_needed |->
                         should_clarify(a.clarity_confidence, a.is_ambiguous,
                                        Get(state, "interaction_count", 0)),
                     current_node |-> "analyze_query",
                     total_llm_calls |-> Get(state, "total_llm_calls", 0) + 1])

retrieve_documents_node_raising(state, vector) ==
    LET found == retrieve(vector)
    IN  IF found.raised # "none" THEN found
        ELSE Ok([retrieved_docs |-> found.value,
                 current_node |-> "retrieve_documents"])

retrieve_documents_node(state, vector) ==
    LET found == retrieve(vector)
        documents == IF found.raised # "none" THEN <<>> ELSE found.value
    IN  Ok([retrieved_docs |-> documents, current_node |-> "retrieve_documents"])

evaluate_relevance_node(state, llms) ==
    LET documents == Get(state, "retrieved_docs", <<>>)
    IN  IF documents = <<>>
        THEN Ok([relevance_scores |-> <<>>, avg_relevance |-> 0,
                 high_relevance_count |-> 0, medium_relevance_count |-> 0,
                 current_node |-> "evaluate_relevance"])
        ELSE LET evaluations == evaluate_batch(documents, llms)
             IN  IF evaluations.raised # "none" THEN evaluations
                 ELSE LET metrics == calculate_metrics(evaluations.value)
                      IN  Ok([relevance_scores |->
                                  [i \in DOMAIN evaluations.value |->
                                      evaluations.value[i].relevance_score],
                              avg_relevance |-> metrics.avg_relevance,
                              high_relevance_count |-> metrics.high_relevance_count,
                              medium_relevance_count |->
                                  metrics.medium_relevance_count,
                              current_node |-> "evaluate_relevance",
                              total_llm_calls |->
                                  Get(state, "total_llm_calls", 0) + Len(documents)])

rewrite_query_node(state, llm) ==
    LET retry_count == Get(state, "retry_count", 0)
        previous_queries == Get(state, "rewritten_queries", <<>>)
    IN  IF ~llm.ok THEN Raise("LLMException")
        ELSE Ok([refined_query |-> llm.rewritten_query,
                 rewritten_queries |-> Append(previous_queries, llm.rewritten_query),
                 retry_count |-> retry_count + 1,
                 correction_triggered |-> TRUE,
                 current_node |-> "rewrite_query",
                 total_llm_calls |-> Get(state, "total_llm_calls", 0) + 1])

generate_response_node(state, llm) ==
    IF ~llm.ok THEN Raise("LLMException")
    ELSE Ok([generated_response |-> llm.response,
             current_node |-> "generate_response",
             total_llm_calls |-> Get(state, "total_llm_calls", 0) + 1])

\* the disclaimer taken from the evaluation when no web search was made
evaluate_quality_node_from_evaluation(state, llm) ==
    LET response == Get(state, "generated_response", <<>>)
        web_search_triggered == Get(state, "web_search_triggered", FALSE)
        evaluation == quality_evaluate(response, llm)
    IN  IF evaluation.raised # "none" THEN evaluation
        ELSE Ok([response_confidence |-> evaluation.value.confidence,
                 needs_disclaimer |-> (web_search_triggered
                                       \/ evaluation.value.needs_disclaimer),
                 current_node |-> "evaluate_quality",
                 total_llm_calls |-> Get(state, "total_llm_calls", 0) + 1])

evaluate_quality_node(state, llm) ==
    LET response == Get(state, "generated_response", <<>>)
        web_search_triggered == Get(state, "web_search_triggered", FALSE)
        evaluation == quality_evaluate(response, llm)
    IN  IF evaluation.raised # "none" THEN evaluation
        ELSE Ok([response_confidence |-> evaluation.value.confidence,
                 needs_disclaimer |-> web_search_triggered,
                 current_node |-> "evaluate_quality",
                 total_llm_calls |-> Get(state, "total_llm_calls", 0) + 1])

\* sum(scores) / len(scores) in whole tenths
RECURSIVE SumCombined(_)
SumCombined(results) ==
    IF results = <<>> THEN 0
    ELSE Head(results).combined_score + SumCombined(Tail(results))

\* an except branch that does not record the search
web_search_node_silent_failure(state, web) ==
    IF web.ok
    THEN Ok([web_search_triggered |-> TRUE, web_results |-> web.docs,
             web_confidence |-> IF web.docs # <<>>
                                THEN SumCombined(web.docs) \div Len(web.docs)
                                ELSE 0,
             needs_disclaimer |-> TRUE, current_node |-> "web_search"])
    ELSE Ok([web_search_triggered |-> FALSE, web_results |-> <<>>,
             web_confidence |-> 0, needs_disclaimer |-> FALSE,
             error_log |-> Append(Get(state, "error_log", <<>>), "Web search error"),
             current_node |-> "web_search"])

web_search_node(state, web) ==
    IF web.ok
    THEN Ok([web_search_triggered |-> TRUE, web_results |-> web.docs,
             web_confidence |-> IF web.docs # <<>>
                                THEN SumCombined(web.docs) \div Len(web.docs)
                                ELSE 0,
             needs_disclaimer |-> TRUE, current_node |-> "web_search"])
    ELSE Ok([web_search_triggered |-> TRUE, web_results |-> <<>>,
             web_confidence |-> 0, needs_disclaimer |-> TRUE,
             error_log |-> Append(Get(state, "error_log", <<>>), "Web search error"),
             current_node |-> "web_search"])

clarify_hitl_node(state, llm) ==
    LET clarification == generate_clarification(Get(state, "ambiguity_type", "None"),
                                                llm)
    IN  Ok([clarification_question |-> clarification.clarification_question,
            clarification_options |-> clarification.options,
            interaction_count |-> Get(state, "interaction_count", 0) + 1,
            current_node |-> "clarify_hitl",
            total_llm_calls |-> Get(state, "total_llm_calls", 0) + 1])

\* a resume that starts the interaction count again at 0
process_hitl_response_node_reset(state, llm) ==
    Ok([refined_query |-> state.query, clarification_needed |-> FALSE,
        is_ambiguous |-> FALSE, interaction_count |-> 0,
        current_node |-> "process_hitl_response",
        total_llm_calls |-> Get(state, "total_llm_calls", 0) + 1])

process_hitl_response_node(state, llm) ==
    LET user_response_text == Get(state, "user_response", <<>>)
        clarification_options == Get(state, "clarification_options", <<>>)
        response ==
            IF user_response_text \in Range(clarification_options)
            THEN [selected_option |-> user_response_text, custom_input |-> <<>>]
            ELSE [selected_option |-> <<>>, custom_input |-> user_response_text]
    IN  Ok([refined_query |-> refine_query(state.query, response, llm),
            clarification_needed |-> FALSE,
            is_ambiguous |-> FALSE,
            current_node |-> "process_hitl_response",
            total_llm_calls |-> Get(state, "total_llm_calls", 0) + 1])

decompose_query_node(state, llm) ==
    LET query == IF Get(state, "refined_query", <<>>) # <<>>
                 THEN state.refined_query ELSE state.query
        complexity == Get(state, "complexity", "simple")
    IN  IF complexity # "complex"
        THEN Ok([current_node |-> "decompose_query"])
        ELSE LET decomposition == decompose_query(query, llm)
             IN  Ok([sub_questions |->
                         [i \in DOMAIN decomposition.sub_questions |->
                             [id |-> decomposition.sub_questions[i].id,
                              question |-> decomposition.sub_questions[i].question]],
                     parallel_groups |-> decomposition.parallel_groups,
                     current_node |-> "decompose_query",
                     total_llm_calls |-> Get(state, "total_llm_calls", 0) + 1])

----------------------------------------------------------------------------
(* Orchestrator: src/core/orchestrator.py *)

\* RAGOrchestrator._build_graph / _build_continuation_graph: the edges.  The
\* continuation graph has the same edges without analyze_query and
\* clarify_hitl; its entry point is process_hitl_response.
EntryPoint(graph) ==
    IF graph = "main" THEN "analyze_query" ELSE "process_hitl_response"

GraphNodes(graph) ==
    IF graph = "main" THEN NodeNames
    ELSE NodeNames \ {"analyze_query", "clarify_hitl"}

Edge(node, state) ==
    CASE node = "analyze_query" ->
            LET route == route_after_analysis(state)
            IN  IF route = "clarify" THEN "clarify_hitl"
                ELSE IF route = "decompose" THEN "decompose_query"
                ELSE "retrieve"
      [] node = "clarify_hitl" -> "END"
      [] node = "process_hitl_response" ->
            IF route_after_hitl_response(state) = "decompose"
            THEN "decompose_query" ELSE "retrieve"
      [] node = "decompose_query" -> "retrieve"
      [] node = "retrieve" -> "evaluate_relevance"
      [] node = "evaluate_relevance" ->
            LET route == route_after_evaluation(state)
            IN  IF route = "generate" THEN "generate_response"
                ELSE IF route = "rewrite" THEN "rewrite_query"
                ELSE "web_search"
      [] node = "rewrite_query" -> "retrieve"
      [] node = "web_search" -> "generate_response"
      [] node = "generate_response" -> "evaluate_quality"
      [] node = "evaluate_quality" -> "END"

\* the outcomes the environment can give to the collaborator calls of a node
Outcomes(node, state) ==
    CASE node = "analyze_query" -> Analyses
      [] node = "retrieve" -> VectorResults
      [] node = "evaluate_relevance" ->
            [1..Len(Get(state, "retrieved_docs", <<>>)) -> RelevanceAnswers]
      [] node = "rewrite_query" -> RewriteAnswers
      [] node = "web_search" -> WebAnswers
      [] node = "generate_response" -> ResponseAnswers
      [] node = "evaluate_quality" -> QualityAnswers
      [] OTHER -> {KeywordError}

RunNode(node, state, env) ==
    CASE node = "analyze_query" -> analyze_query_node(state, env)
      [] node = "clarify_hitl" -> clarify_hitl_node(state, env)
      [] node = "process_hitl_response" -> process_hitl_response_node(state, env)
      [] node = "decompose_query" -> decompose_query_node(state, env)
      [] node = "retrieve" -> retrieve_documents_node(state, env)
      [] node = "evaluate_relevance" -> evaluate_relevance_node(state, env)
      [] node = "rewrite_query" -> rewrite_query_node(state, env)
      [] node = "web_search" -> web_search_node(state, env)
      [] node = "generate_response" -> generate_response_node(state, env)
      [] node = "evaluate_quality" -> evaluate_quality_node(state, env)

\* RAGOrchestrator._build_response
\* without the inner if of line 285
build_response_no_hybrid(final_state, session_id) ==
    [response |-> Get(final_state, "generated_response", <<>>),
     confidence |-> Get(final_state, "response_confidence", 0),
     needs_disclaimer |-> Get(final_state, "needs_disclaimer", TRUE),
     retrieval_source |->
         IF Get(final_state, "web_search_triggered", FALSE)
         THEN "web" ELSE "vector",
     session_id |-> session_id]

build_response(final_state, session_id) ==
    [response |-> Get(final_state, "generated_response", <<>>),
     confidence |-> Get(final_state, "response_confidence", 0),
     needs_disclaimer |-> Get(final_state, "needs_disclaimer", TRUE),
     retrieval_source |->
         IF Get(final_state, "web_search_triggered", FALSE)
         THEN IF Get(final_state, "retrieved_docs", <<>>) # <<>>
              THEN "hybrid" ELSE "web"
         ELSE "vector",
     session_id |-> session_id]

\* RAGOrchestrator.has_pending_session
has_pending_session_always(session_id) == TRUE

has_pending_session(session_id) == session_id \in DOMAIN pending_sessions

NoCall ==
    [phase |-> "idle", via |-> "none", session_id |-> "none", query |-> <<>>,
     user_response |-> <<>>, kind |-> "none", graph |-> "none",
     state |-> EmptyDict, next |-> "END", visited |-> <<>>,
     outcome |-> "none", response |-> EmptyDict,
     pending_before |-> EmptyDict, pending_after |-> EmptyDict]

\* process_query up to its first suspension point: a pending session and a user
\* response continue the stored state (_continue_with_hitl_response pops it and
\* injects the response); anything else starts a fresh run.
StartProcessQuery(via, query, session_id, user_response) ==
    LET base == [NoCall EXCEPT !.phase = "running", !.via = via,
                               !.session_id = session_id, !.query = query,
                               !.user_response = user_response,
                               !.pending_before = pending_sessions]
    IN  IF user_response # <<>> /\ session_id \in DOMAIN pending_sessions
        THEN /\ pending_sessions' = Pop(pending_sessions, session_id)
             /\ call' = [base EXCEPT
                           !.kind = "resume", !.graph = "continuation",
                           !.state = Merge(pending_sessions[session_id],
                                           [user_response |-> user_response]),
                           !.next = EntryPoint("continuation")]
        ELSE /\ UNCHANGED pending_sessions
             /\ call' = [base EXCEPT
                           !.kind = "fresh", !.graph = "main",
                           !.state = create_initial_state(query, session_id),
                           !.next = EntryPoint("main")]

\* a caller of the core invokes process_query(query, session_id, user_response)
ProcessQuery ==
    /\ call.phase = "idle"
    /\ loop.pc = "idle"
    /\ \E query \in Queries, session_id \in SessionIds,
          user_response \in UserResponses :
          StartProcessQuery("process_query", query, session_id, user_response)
    /\ UNCHANGED <<requests, hitl_disabled, fn, loop, par>>

\* POST /chat/clarify (src/api/routes/chat.py): a session without a pending
\* entry is answered 400 before process_query is called
ChatClarify ==
    /\ call.phase = "idle"
    /\ loop.pc = "idle"
    /\ \E session_id \in SessionIds, user_response \in UserResponses :
          IF ~has_pending_session(session_id)
          THEN /\ call' = [NoCall EXCEPT
                             !.phase = "done", !.via = "chat_clarify",
                             !.session_id = session_id,
                             !.user_response = user_response,
                             !.kind = "rejected", !.outcome = "HTTP400",
                             !.pending_before = pending_sessions,
                             !.pending_after = pending_sessions]
               /\ UNCHANGED pending_sessions
          ELSE StartProcessQuery("chat_clarify",
                                 Get(Get(pending_sessions, session_id, EmptyDict),
                                     "query", <<>>),
                                 session_id, user_response)
    /\ UNCHANGED <<requests, hitl_disabled, fn, loop, par>>

\* the end of process_query / _continue_with_hitl_response, after the graph
\* without the interrupt check of lines 154-162: every run ends in a response
Finish_no_interrupt(final_state) ==
    /\ UNCHANGED pending_sessions
    /\ call' = [call EXCEPT
                  !.phase = "done", !.state = final_state, !.next = "END",
                  !.visited = Append(@, call.next),
                  !.outcome = "RAGResponse",
                  !.response = build_response(final_state, call.session_id),
                  !.pending_after = pending_sessions]

\* a final answer that also removes the entry of the session
Finish_clearing_session(final_state) ==
    IF Get(final_state, "current_node", "start") = "clarify_hitl"
    THEN /\ pending_sessions' = Put(pending_sessions, call.session_id, final_state)
         /\ call' = [call EXCEPT
                       !.phase = "done", !.state = final_state, !.next = "END",
                       !.visited = Append(@, call.next),
                       !.outcome = "ClarificationOutput",
                       !.response =
                           [clarification_question |->
                                Get(final_state, "clarification_question", ""),
                            options |->
                                Get(final_state, "clarification_options", <<>>)],
                       !.pending_after = pending_sessions']
    ELSE /\ pending_sessions' = Pop(pending_sessions, call.session_id)
         /\ call' = [call EXCEPT
                       !.phase = "done", !.state = final_state, !.next = "END",
                       !.visited = Append(@, call.next),
                       !.outcome = "RAGResponse",
                       !.response = build_response(final_state, call.session_id),
                       !.pending_after = pending_sessions']

Finish(final_state) ==
    IF Get(final_state, "current_node", "start") = "clarify_hitl"
    THEN /\ pending_sessions' = Put(pending_sessions, call.session_id, final_state)
         /\ call' = [call EXCEPT
                       !.phase = "done", !.state = final_state, !.next = "END",
                       !.visited = Append(@, call.next),
                       !.outcome = "ClarificationOutput",
                       !.response =
                           [clarification_question |->
                                Get(final_state, "clarification_question", ""),
                            options |->
                                Get(final_state, "clarification_options", <<>>)],
                       !.pending_after = pending_sessions']
    ELSE /\ UNCHANGED pending_sessions
         /\ call' = [call EXCEPT
                       !.phase = "done", !.state = final_state, !.next = "END",
                       !.visited = Append(@, call.next),
                       !.outcome = "RAGResponse",
                       !.response = build_response(final_state, call.session_id),
                       !.pending_after = pending_sessions]

\* _run_graph: one node of the graph runs; its delta is merged into the state
\* and the edge picks the next node.  An exception of the node ends the call.
GraphStep ==
    /\ call.phase = "running"
    /\ call.next \in GraphNodes(call.graph)
    /\ \E env \in Outcomes(call.next, call.state) :
          LET result == RunNode(call.next, call.state, env)
          IN  IF result.raised # "none"
              THEN /\ call' = [call EXCEPT
                                 !.phase = "done", !.next = "END",
                                 !.visited = Append(@, call.next),
                                 !.outcome = result.raised,
                                 !.pending_after = pending_sessions]
                   /\ UNCHANGED pending_sessions
              ELSE LET final_state == Merge(call.state, result.value)
                       next_node == Edge(call.next, final_state)
                   IN  IF next_node = "END" THEN Finish(final_state)
                       ELSE /\ call' = [call EXCEPT
                                          !.state = final_state,
                                          !.next = next_node,
                                          !.visited = Append(@, call.next)]
                            /\ UNCHANGED pending_sessions
    /\ UNCHANGED <<requests, hitl_disabled, fn, loop, par>>

\* the caller has received the result or the exception; the next request
\* can be served
Return ==
    /\ call.phase = "done"
    /\ call' = NoCall
    /\ UNCHANGED <<requests, hitl_disabled, fn, pending_sessions, loop, par>>

----------------------------------------------------------------------------
----------------------------------------------------------------------------
(* Correction loop: src/rag/corrective_engine.py, src/rag/query_rewriter.py *)

FIRST_RETRY_STRATEGIES == <<"synonym_expansion", "context_addition">>
SECOND_RETRY_STRATEGIES == <<"generalization">>
\* list(RewriteStrategy)
RewriteStrategies ==
    <<"synonym_expansion", "context_addition", "generalization", "specification">>

\* the first strategy of the tier, whether or not it was used before
select_strategy_first_of_tier(retry_count, previous_strategies) ==
    IF retry_count = 0 THEN FIRST_RETRY_STRATEGIES[1] ELSE SECOND_RETRY_STRATEGIES[1]

\* QueryRewriter.select_strategy
select_strategy(retry_count, previous_strategies) ==
    LET candidates == IF retry_count = 0 THEN FIRST_RETRY_STRATEGIES
                      ELSE SECOND_RETRY_STRATEGIES
        Unused(strategy) == strategy \notin Range(previous_strategies)
        in_tier == SelectSeq(candidates, Unused)
        available == IF in_tier = <<>> THEN SelectSeq(RewriteStrategies, Unused)
                     ELSE in_tier
    IN  IF available # <<>> THEN available[1] ELSE "generalization"

\* QueryRewriter.rewrite_auto: the strategy, then the model's rewrite
rewrite_auto(query, retry_count, previous_queries, previous_strategies, llm) ==
    LET strategy == select_strategy(retry_count, previous_strategies)
    IN  IF ~llm.ok THEN Raise("LLMException")
        ELSE Ok([rewritten_query |-> llm.rewritten_query, strategy |-> strategy])

\* without the web search fallback: rewrite whenever relevance is insufficient
determine_next_action_no_fallback(self, state) ==
    LET avg_relevance == Get(state, "avg_relevance", 0)
        high_count == Get(state, "high_relevance_count", 0)
    IN  IF high_count >= self.min_high_relevance_docs
           \/ avg_relevance >= self.relevance_threshold THEN "proceed"
        ELSE "rewrite"

\* CorrectiveEngine.determine_next_action
determine_next_action(self, state) ==
    LET avg_relevance == Get(state, "avg_relevance", 0)
        high_count == Get(state, "high_relevance_count", 0)
        retry_count == Get(state, "retry_count", 0)
    IN  IF high_count >= self.min_high_relevance_docs
           \/ avg_relevance >= self.relevance_threshold THEN "proceed"
        ELSE IF retry_count < self.max_retries THEN "rewrite"
        ELSE "web_search"

\* CorrectiveEngine.retrieve_and_evaluate: a failed retrieval counts as empty
retrieve_and_evaluate(vector, llms) ==
    LET retrieved == retrieve(vector)
        documents == IF retrieved.raised # "none" THEN <<>> ELSE retrieved.value
    IN  IF documents = <<>>
        THEN Ok([documents |-> <<>>, evaluations |-> <<>>,
                 metrics |-> [avg_relevance |-> 0, high_relevance_count |-> 0,
                              sufficient |-> FALSE]])
        ELSE LET evaluations == evaluate_batch(documents, llms)
             IN  IF evaluations.raised # "none" THEN evaluations
                 ELSE Ok([documents |-> documents,
                          evaluations |-> evaluations.value,
                          metrics |-> calculate_metrics(evaluations.value)])

\* CorrectiveEngine.rewrite_and_retry
rewrite_and_retry(current_query, retry_count, previous_queries, previous_strategies, llm, vector, llms) ==
    LET rewritten == rewrite_auto(current_query, retry_count, previous_queries,
                                  previous_strategies, llm)
        retried == retrieve_and_evaluate(vector, llms)
    IN  IF rewritten.raised # "none" THEN rewritten
        ELSE IF retried.raised # "none" THEN retried
        ELSE Ok([refined_query |-> rewritten.value.rewritten_query,
                 strategy_used |-> rewritten.value.strategy,
                 rewritten_queries |->
                     Append(previous_queries, rewritten.value.rewritten_query),
                 previous_strategies |->
                     Append(previous_strategies, rewritten.value.strategy),
                 retry_count |-> retry_count + 1,
                 documents |-> retried.value.documents,
                 evaluations |-> retried.value.evaluations,
                 metrics |-> retried.value.metrics,
                 correction_triggered |-> TRUE])

\* the state the loop decides on (corrective_engine.py:171-175 and 200-204)
decision_state(metrics, retry_count) ==
    [avg_relevance |-> Get(metrics, "avg_relevance", 0),
     high_relevance_count |-> Get(metrics, "high_relevance_count", 0),
     retry_count |-> retry_count]

\* what the engines of the loop are built with: max_retries and
\* min_high_relevance_docs (0 stands for the settings' value)
EngineArgs == Counts \X (0..MaxDocs)

\* the queries the loop is run on
LoopQueries == {<<>>, <<"a">>}

\* the relevance of one retrieval is sufficient for the engine
sufficient(self, state) ==
    ~(state.high_relevance_count < self.min_high_relevance_docs
      /\ state.avg_relevance < self.relevance_threshold)

NoLoop ==
    [pc |-> "idle", max_retries |-> 0, self |-> EmptyDict, query |-> <<>>,
     current_query |-> <<>>,
     retry_count |-> 0, rewritten_queries |-> <<>>, previous_strategies |-> <<>>,
     correction_triggered |-> FALSE, documents |-> <<>>, evaluations |-> <<>>,
     metrics |-> EmptyDict, state |-> EmptyDict, attempts |-> <<>>,
     outcome |-> "none", result |-> EmptyDict]

\* run_correction_loop up to the loop: lines 159-175.  attempts records, for
\* every retrieval made, whether its relevance was sufficient; max_retries is
\* the argument the engine was constructed with.
RunCorrectionLoop ==
    /\ loop.pc = "idle"
    /\ call.phase = "idle"
    /\ \E args \in EngineArgs, query \in LoopQueries, vector \in VectorResults :
       \E llms \in [1..Len(vector.docs) -> RelevanceAnswers] :
          LET self == CorrectiveEngineInit(args[1], args[2])
              first == retrieve_and_evaluate(vector, llms)
              base == [NoLoop EXCEPT !.max_retries = args[1],
                                     !.self = self, !.query = query,
                                     !.current_query = query,
                                     !.rewritten_queries = <<query>>]
          IN  IF first.raised # "none"
              THEN loop' = [base EXCEPT !.pc = "done", !.outcome = first.raised]
              ELSE LET state == decision_state(first.value.metrics, 0)
                   IN  loop' = [base EXCEPT
                                  !.pc = "loop",
                                  !.documents = first.value.documents,
                                  !.evaluations = first.value.evaluations,
                                  !.metrics = first.value.metrics,
                                  !.state = state,
                                  !.attempts = <<sufficient(self, state)>>]
    /\ UNCHANGED <<requests, hitl_disabled, fn, pending_sessions, call, par>>

\* one test of the while condition: an iteration (lines 178-204), or the exit
\* and the return (lines 206-219)
CorrectionStep ==
    /\ loop.pc = "loop"
    /\ IF should_correct(loop.self, loop.state)
       THEN \E llm \in RewriteAnswers, vector \in VectorResults :
            \E llms \in [1..Len(vector.docs) -> RelevanceAnswers] :
               LET result == rewrite_and_retry(loop.current_query, loop.retry_count,
                                               loop.rewritten_queries,
                                               loop.previous_strategies,
                                               llm, vector, llms)
               IN  IF result.raised # "none"
                   THEN loop' = [loop EXCEPT !.pc = "done",
                                             !.correction_triggered = TRUE,
                                             !.outcome = result.raised]
                   ELSE LET state == decision_state(result.value.metrics,
                                                    result.value.retry_count)
                        IN  loop' = [loop EXCEPT
                                  !.correction_triggered = TRUE,
                                  !.current_query = result.value.refined_query,
                                  !.retry_count = result.value.retry_count,
                                  !.rewritten_queries = result.value.rewritten_queries,
                                  !.previous_strategies =
                                      result.value.previous_strategies,
                                  !.documents = result.value.documents,
                                  !.evaluations = result.value.evaluations,
                                  !.metrics = result.value.metrics,
                                  !.state = state,
                                  !.attempts = Append(loop.attempts,
                                                     sufficient(loop.self, state))]
       ELSE LET final_action == determine_next_action(loop.self, loop.state)
            IN  loop' = [loop EXCEPT
                           !.pc = "done", !.outcome = "returned",
                           !.result = [documents |-> loop.documents,
                                       evaluations |-> loop.evaluations,
                                       metrics |-> loop.metrics,
                                       correction_triggered |->
                                           loop.correction_triggered,
                                       retry_count |-> loop.retry_count,
                                       rewritten_queries |-> loop.rewritten_queries,
                                       final_query |-> loop.current_query,
                                       action_taken |-> final_action,
                                       web_search_needed |->
                                           (final_action = "web_search")]]
    /\ UNCHANGED <<requests, hitl_disabled, fn, pending_sessions, call, par>>

\* the caller has the result (or the exception)
LoopReturn ==
    /\ loop.pc = "done"
    /\ loop' = NoLoop
    /\ UNCHANGED <<requests, hitl_disabled, fn, pending_sessions, call, par>>

(* Inputs of the direct calls *)

\* ids of the sub-questions of a decomposition, and an id that no
\* sub-question of the decomposition has
QuestionIdNames == <<"q1", "q2", "q3", "q4", "q5", "q6">>
QuestionIds == { QuestionIdNames[i] : i \in 1..MaxQuestions }
ForeignId == "qx"

\* a list holding the elements of a set of ids
IdList(ids) ==
    LET Member(id) == id \in ids
    IN  SelectSeq(QuestionIdNames \o <<ForeignId>>, Member)

\* the dependencies of one sub-question: any of the ids of the list (its own
\* included), or the foreign id
DependencySets == (SUBSET QuestionIds) \cup {{ForeignId}}

\* a list of n sub-questions with distinct ids and the given dependencies
\* (cycles included)
SubQuestions(n, deps) ==
    [i \in 1..n |-> [id |-> QuestionIdNames[i], question |-> <<"s">>,
                     dependencies |-> IdList(deps[i])]]

\* dependencies of a chain: a sub-question depends on nothing or on the one
\* before it
ChainDependencies(n) ==
    { [i \in 1..n |-> IF i > 1 /\ chained[i] THEN {QuestionIdNames[i - 1]} ELSE {}] :
        chained \in [1..n -> BOOLEAN] }

\* "Decompose this complex question into 2-5 simpler sub-questions"
MAX_SUB_QUESTIONS == 5

\* the parallel_groups of the model's answer: none, one wave, or waves that
\* name an id no sub-question has
AnsweredGroups == {<<>>, << <<"q1">> >>, << <<"q1">>, <<ForeignId>> >>}

\* dependencies with a cycle: the first two sub-questions depend on each other
CyclicDependencies(n) ==
    IF n < 2 THEN {}
    ELSE { [i \in 1..n |-> IF i = 1 THEN {QuestionIdNames[2]}
                           ELSE IF i = 2 THEN {QuestionIdNames[1]} ELSE {}] }

\* what a provider that accepts the call answers to the decomposition prompt:
\* up to MaxQuestions chained sub-questions, with or without parallel_groups;
\* one sub-question more than the prompt asks for; or a failure
DecompositionAnswers ==
    UNION { { [ok |-> TRUE, sub_questions |-> SubQuestions(n, deps),
               parallel_groups |-> groups] :
                deps \in ChainDependencies(n), groups \in AnsweredGroups } :
            n \in 0..MaxQuestions }
    \cup { [ok |-> TRUE,
            sub_questions |->
                SubQuestions(MAX_SUB_QUESTIONS + 1,
                             [i \in 1..(MAX_SUB_QUESTIONS + 1) |-> {}]),
            parallel_groups |-> <<>>] }
    \cup { [ok |-> FALSE, sub_questions |-> <<>>, parallel_groups |-> <<>>] }

AnalysisStates ==
    { Restrict([clarification_needed |-> cn, complexity |-> cx,
                interaction_count |-> ic], has) :
        cn \in BOOLEAN, cx \in {"simple", "complex"}, ic \in Counts,
        has \in SUBSET {"clarification_needed", "complexity", "interaction_count"} }

EvaluationStates ==
    { Restrict([retrieved_docs |-> ds, avg_relevance |-> avg,
                high_relevance_count |-> hi, medium_relevance_count |-> me,
                retry_count |-> rc], has) :
        ds \in DocLists, avg \in Scores, hi \in Counts, me \in Counts, rc \in Counts,
        has \in SUBSET {"retrieved_docs", "avg_relevance", "high_relevance_count",
                        "medium_relevance_count", "retry_count"} }

CorrectionStates ==
    { Restrict([avg_relevance |-> avg, high_relevance_count |-> hi,
                retry_count |-> rc], has) :
        avg \in Scores, hi \in Counts, rc \in Counts,
        has \in SUBSET {"avg_relevance", "high_relevance_count", "retry_count"} }

----------------------------------------------------------------------------
(* Parallel retrieval: src/agents/agentic_controller.py:110-189 *)

\* what retrieval_func does for one sub-question: it returns (answer, sources,
\* confidence), or it raises
RetrievalOutcomes ==
    { [ok |-> TRUE, answer |-> <<"A">>, sources |-> <<"d1">>, confidence |-> 7],
      [ok |-> TRUE, answer |-> <<"B">>, sources |-> <<>>, confidence |-> 9],
      [ok |-> FALSE, answer |-> <<"e">>, sources |-> <<>>, confidence |-> 0] }

SubAnswer(question, answer, sources, confidence) ==
    [question_id |-> question.id, question |-> question.question,
     answer |-> answer, sources |-> sources, confidence |-> confidence]

\* the fixed answer of agentic_controller.py:154, "정보를 찾을 수 없습니다."
\* (information not found), and the prefix of the answer of line 186,
\* "오류 발생: " (an error occurred), which str(e) follows
NOT_FOUND_ANSWER == <<"not found">>
ERROR_ANSWER_PREFIX == <<"error: ">>

\* without the try / except of lines 170-189
execute_single_retrieval_raising(question, outcome) ==
    IF outcome.ok
    THEN Ok(SubAnswer(question, outcome.answer, outcome.sources, outcome.confidence))
    ELSE Raise("Exception")

\* AgenticController._execute_single_retrieval: outcome.answer is str(e) when
\* retrieval_func raised
execute_single_retrieval(question, outcome) ==
    IF outcome.ok
    THEN Ok(SubAnswer(question, outcome.answer, outcome.sources, outcome.confidence))
    ELSE Ok(SubAnswer(question, ERROR_ANSWER_PREFIX \o outcome.answer, <<>>, 0))

\* question_map[qid]
question_map(sub_questions, qid) ==
    sub_questions[CHOOSE i \in DOMAIN sub_questions : sub_questions[i].id = qid]

\* the questions of a group that are known and whose dependencies are met
executable_of_no_dependencies(sub_questions, group, completed_ids) ==
    LET CanRun(qid) == qid \in Range(Ids(sub_questions))
    IN  SelectSeq(group, CanRun)

executable_of(sub_questions, group, completed_ids) ==
    LET CanRun(qid) ==
            /\ qid \in Range(Ids(sub_questions))
            /\ \A dep \in Range(question_map(sub_questions, qid).dependencies) :
                   dep \in completed_ids
    IN  SelectSeq(group, CanRun)

\* the for loop up to the next gather: groups without an executable question
\* are skipped (`continue`)
RECURSIVE next_wave(_, _, _)
next_wave(decomposition, group, completed_ids) ==
    IF group > Len(decomposition.parallel_groups)
    THEN [group |-> group, executable |-> <<>>]
    ELSE LET executable == executable_of(decomposition.sub_questions,
                                         decomposition.parallel_groups[group],
                                         completed_ids)
         IN  IF executable = <<>>
             THEN next_wave(decomposition, group + 1, completed_ids)
             ELSE [group |-> group, executable |-> executable]

\* the results of gather, in the order of executable, as sub answers
RECURSIVE collect(_, _, _)
collect(sub_questions, executable, results) ==
    IF executable = <<>> THEN <<>>
    ELSE LET qid == Head(executable)
             result == results[qid]
             answer == IF result.raised # "none"
                       THEN SubAnswer(question_map(sub_questions, qid),
                                      NOT_FOUND_ANSWER, <<>>, 0)
                       ELSE result.value
         IN  <<answer>> \o collect(sub_questions, Tail(executable), results)

\* the parallel_groups a decomposition comes with: the default ones, all the
\* questions in one group, or the default ones after a group of an unknown id
GroupsFor(sub_questions) ==
    { create_default_parallel_groups(sub_questions),
      <<Ids(sub_questions)>>,
      << <<ForeignId>> >> \o create_default_parallel_groups(sub_questions) }

NoPar ==
    [pc |-> "idle", decomposition |-> EmptyDict, group |-> 0, executable |-> <<>>,
     outcomes |-> EmptyDict, results |-> EmptyDict, sub_answers |-> <<>>,
     completed_ids |-> {}, waves |-> <<>>, outcome |-> "none"]

\* the tasks of the wave are created; or, when no group is left, the return
EnterWave(state, group) ==
    LET wave == next_wave(state.decomposition, group, state.completed_ids)
    IN  IF wave.executable = <<>>
        THEN [state EXCEPT !.pc = "done", !.group = wave.group,
                           !.executable = <<>>, !.results = EmptyDict,
                           !.outcome = "returned"]
        ELSE [state EXCEPT !.pc = "wave", !.group = wave.group,
                           !.executable = wave.executable, !.results = EmptyDict,
                           !.waves = Append(@, wave.executable)]

\* execute_parallel_retrieval is called: lines 125-147.  outcomes records what
\* retrieval_func did for each question, waves the questions of each gather.
ExecuteParallelRetrieval ==
    /\ par.pc = "idle"
    /\ \E n \in 0..MaxQuestions :
       \E deps \in ChainDependencies(n) \cup CyclicDependencies(n) :
       \E groups \in GroupsFor(SubQuestions(n, deps)) :
          par' = EnterWave([NoPar EXCEPT
                              !.decomposition =
                                  [sub_questions |-> SubQuestions(n, deps),
                                   parallel_groups |-> groups]], 1)
    /\ UNCHANGED <<requests, hitl_disabled, fn, pending_sessions, call, loop>>

\* one task of the wave finishes, in any order among the tasks
TaskCompletes ==
    /\ par.pc = "wave"
    /\ \E qid \in Range(par.executable) \ DOMAIN par.results :
       \E outcome \in RetrievalOutcomes :
          LET question == question_map(par.decomposition.sub_questions, qid)
          IN  par' = [par EXCEPT
                        !.outcomes = Put(@, qid, outcome),
                        !.results = Put(@, qid,
                                        execute_single_retrieval(question, outcome))]
    /\ UNCHANGED <<requests, hitl_disabled, fn, pending_sessions, call, loop>>

\* gather returns when every task of the wave has finished: lines 149-160,
\* then the next group
Gather ==
    /\ par.pc = "wave"
    /\ DOMAIN par.results = Range(par.executable)
    /\ par' = EnterWave([par EXCEPT
                           !.sub_answers =
                               @ \o collect(par.decomposition.sub_questions,
                                            par.executable, par.results),
                           !.completed_ids = @ \cup Range(par.executable)],
                        par.group + 1)
    /\ UNCHANGED <<requests, hitl_disabled, fn, pending_sessions, call, loop>>

\* the caller has the sub answers
ParReturn ==
    /\ par.pc = "done"
    /\ par' = NoPar
    /\ UNCHANGED <<requests, hitl_disabled, fn, pending_sessions, call, loop>>

(* Direct calls of the pure functions (the unit tests' way of using them) *)

CallRouteAfterAnalysis ==
    /\ fn.name = "none"
    /\ \E s \in AnalysisStates :
          fn' = [name |-> "route_after_analysis", args |-> s,
                 ret |-> route_after_analysis(s)]
    /\ UNCHANGED <<requests, hitl_disabled, pending_sessions, call, loop, par>>

CallRouteAfterHitlResponse ==
    /\ fn.name = "none"
    /\ \E s \in AnalysisStates :
          fn' = [name |-> "route_after_hitl_response", args |-> s,
                 ret |-> route_after_hitl_response(s)]
    /\ UNCHANGED <<requests, hitl_disabled, pending_sessions, call, loop, par>>

CallRouteAfterEvaluation ==
    /\ fn.name = "none"
    /\ \E s \in EvaluationStates :
          fn' = [name |-> "route_after_evaluation", args |-> s,
                 ret |-> route_after_evaluation(s)]
    /\ UNCHANGED <<requests, hitl_disabled, pending_sessions, call, loop, par>>

CallShouldClarify ==
    /\ fn.name = "none"
    /\ \E cc \in Scores, amb \in BOOLEAN, ic \in Counts :
          fn' = [name |-> "should_clarify",
                 args |-> [clarity_confidence |-> cc, is_ambiguous |-> amb,
                           interaction_count |-> ic],
                 ret |-> should_clarify(cc, amb, ic)]
    /\ UNCHANGED <<requests, hitl_disabled, pending_sessions, call, loop, par>>

CallShouldCorrect ==
    /\ fn.name = "none"
    /\ \E mr \in Counts, mh \in Counts, s \in CorrectionStates :
          LET self == CorrectiveEngineInit(mr, mh)
          IN  fn' = [name |-> "should_correct",
                     args |-> [self |-> self, state |-> s],
                     ret |-> should_correct(self, s)]
    /\ UNCHANGED <<requests, hitl_disabled, pending_sessions, call, loop, par>>

CallDecomposeQuery ==
    /\ fn.name = "none"
    /\ \E query \in Queries, llm \in DecompositionAnswers :
          fn' = [name |-> "decompose_query",
                 args |-> [query |-> query, llm |-> llm],
                 ret |-> decompose_query(query, llm)]
    /\ UNCHANGED <<requests, hitl_disabled, pending_sessions, call, loop, par>>

CallCreateDefaultParallelGroups ==
    /\ fn.name = "none"
    /\ \E n \in 0..MaxQuestions :
       \E deps \in [1..n -> DependencySets] :
          LET sub_questions == SubQuestions(n, deps)
          IN  fn' = [name |-> "create_default_parallel_groups",
                     args |-> sub_questions,
                     ret |-> create_default_parallel_groups(sub_questions)]
    /\ UNCHANGED <<requests, hitl_disabled, pending_sessions, call, loop, par>>

\* HITLResponse: a selected option, a custom input, both or neither
HITLResponses ==
    { [selected_option |-> so, custom_input |-> ci] :
        so \in {<<>>, <<"m">>}, ci \in {<<>>, <<"c">>, <<"c", " ", "d">>} }

\* the structured answer of the refinement prompt, or the failed call
RefineAnswers ==
    { [ok |-> TRUE, refined_query |-> rq] : rq \in {<<>>, <<"r">>} }
    \cup {KeywordError}

CallRefineQuery ==
    /\ fn.name = "none"
    /\ \E original_query \in Queries, user_response \in HITLResponses,
          llm \in RefineAnswers :
          fn' = [name |-> "refine_query",
                 args |-> [original_query |-> original_query,
                           user_response |-> user_response, llm |-> llm],
                 ret |-> refine_query(original_query, user_response, llm)]
    /\ UNCHANGED <<requests, hitl_disabled, pending_sessions, call, loop, par>>

\* final states for _build_response: each of the two keys it reads for the
\* retrieval source is absent or holds one of its values
FinalStates ==
    { Merge(triggered, docs) :
        triggered \in {EmptyDict} \cup
            { Put(EmptyDict, "web_search_triggered", b) : b \in BOOLEAN },
        docs \in {EmptyDict} \cup
            { Put(EmptyDict, "retrieved_docs", ds) : ds \in DocLists } }

CallBuildResponse ==
    /\ fn.name = "none"
    /\ \E final_state \in FinalStates, session_id \in SessionIds :
          fn' = [name |-> "build_response",
                 args |-> final_state,
                 ret |-> build_response(final_state, session_id)]
    /\ UNCHANGED <<requests, hitl_disabled, pending_sessions, call, loop, par>>

----------------------------------------------------------------------------
(* Concurrent requests: the coroutines of several requests share the event  *)
(* loop and the orchestrator.  A coroutine runs alone from one await that   *)
(* suspends to the next; an action is one such stretch.                     *)

RequestIds == {"r1", "r2"}

NoRequest ==
    [pc |-> "new", via |-> "none", session_id |-> "none", query |-> <<>>,
     user_response |-> <<>>, kind |-> "none", graph |-> "none",
     state |-> EmptyDict, outcome |-> "none"]

NoRequests == [r \in RequestIds |-> NoRequest]

\* the states a fresh run on the query leaves in the registry: the analysis
\* asks for a clarification and the run ends at clarify_hitl
SuspendedStates(query, session_id) ==
    LET initial_state == create_initial_state(query, session_id)
        Analysed(llm) == Merge(initial_state,
                               analyze_query_node(initial_state, llm).value)
        Clarified(state) == Merge(state, clarify_hitl_node(state, KeywordError).value)
    IN  { Clarified(Analysed(llm)) :
            llm \in { a \in Analyses :
                        /\ analyze_query_node(initial_state, a).raised = "none"
                        /\ Edge("analyze_query", Analysed(a)) = "clarify_hitl" } }

\* the session both requests answer
SuspendedSession == "s1"

\* a read of the stored state that leaves it in the registry
continue_with_hitl_response_get(sessions, session_id, user_response) ==
    IF session_id \notin DOMAIN sessions THEN Raise("KeyError")
    ELSE Ok([sessions |-> sessions,
             stored_state |-> Merge(sessions[session_id],
                                    [user_response |-> user_response])])

\* _continue_with_hitl_response up to _run_graph: the pop of line 174 (a
\* KeyError without the entry) and the user response put into the state
continue_with_hitl_response(sessions, session_id, user_response) ==
    IF session_id \notin DOMAIN sessions THEN Raise("KeyError")
    ELSE Ok([sessions |-> Pop(sessions, session_id),
             stored_state |-> Merge(sessions[session_id],
                                    [user_response |-> user_response])])

\* process_query up to the await of _run_graph.  `return await
\* self._continue_with_hitl_response(...)` enters the coroutine without a
\* suspension, so the test of line 143 and the pop of line 174 are one stretch.
EnterProcessQuery(r, via, query, session_id, user_response) ==
    LET base == [NoRequest EXCEPT !.via = via, !.session_id = session_id,
                                  !.query = query,
                                  !.user_response = user_response]
    IN  IF user_response # <<>> /\ session_id \in DOMAIN pending_sessions
        THEN LET entered == continue_with_hitl_response(pending_sessions,
                                                        session_id, user_response)
             IN  IF entered.raised # "none"
                 THEN /\ UNCHANGED pending_sessions
                      /\ requests' = [requests EXCEPT ![r] =
                             [base EXCEPT !.pc = "done", !.kind = "resume",
                                          !.outcome = entered.raised]]
                 ELSE /\ pending_sessions' = entered.value.sessions
                      /\ requests' = [requests EXCEPT ![r] =
                             [base EXCEPT !.pc = "run_graph", !.kind = "resume",
                                          !.graph = "continuation",
                                          !.state = entered.value.stored_state]]
        ELSE /\ UNCHANGED pending_sessions
             /\ requests' = [requests EXCEPT ![r] =
                    [base EXCEPT !.pc = "run_graph", !.kind = "fresh",
                                 !.graph = "main",
                                 !.state = create_initial_state(query, session_id)]]

\* a caller invokes process_query with a user response for the session
RequestProcessQuery(r) ==
    /\ requests[r].pc = "new"
    /\ \E query \in {<<>>, <<"a">>}, user_response \in UserResponses \ {<<>>} :
          EnterProcessQuery(r, "process_query", query, SuspendedSession,
                            user_response)
    /\ UNCHANGED <<hitl_disabled, fn, call, loop, par>>

\* handle_clarification up to `await manager.send_progress` (websocket.py:
\* 137-150); the two early returns send an error
HandleClarification(r) ==
    /\ requests[r].pc = "new"
    /\ \E user_response \in UserResponses :
          LET base == [NoRequest EXCEPT !.via = "handle_clarification",
                                        !.session_id = SuspendedSession,
                                        !.user_response = user_response]
          IN  requests' = [requests EXCEPT ![r] =
                  IF user_response = <<>>
                  THEN [base EXCEPT !.pc = "done", !.outcome = "no_response_error"]
                  ELSE IF ~has_pending_session(SuspendedSession)
                  THEN [base EXCEPT !.pc = "done", !.outcome = "expired_error"]
                  ELSE [base EXCEPT !.pc = "send_progress"]]
    /\ UNCHANGED <<hitl_disabled, fn, pending_sessions, call, loop, par>>

\* handle_clarification after send_progress: the original query read from the
\* registry (websocket.py:155-156) and process_query entered
ClarificationProcessQuery(r) ==
    /\ requests[r].pc = "send_progress"
    /\ EnterProcessQuery(r, "handle_clarification",
                         Get(Get(pending_sessions, requests[r].session_id,
                                 EmptyDict), "query", <<>>),
                         requests[r].session_id, requests[r].user_response)
    /\ UNCHANGED <<hitl_disabled, fn, call, loop, par>>

\* the graph of the request starts to run.  The nodes of a run read and write
\* only the state of their run, so the runs of two requests are taken one
\* after the other (call holds the run in progress); the stretches of the
\* other request interleave with its nodes.
RequestRunGraph(r) ==
    /\ requests[r].pc = "run_graph"
    /\ call.phase = "idle"
    /\ call' = [NoCall EXCEPT
                  !.phase = "running", !.via = requests[r].via,
                  !.session_id = requests[r].session_id,
                  !.query = requests[r].query,
                  !.user_response = requests[r].user_response,
                  !.kind = requests[r].kind, !.graph = requests[r].graph,
                  !.state = requests[r].state,
                  !.next = EntryPoint(requests[r].graph),
                  !.pending_before = pending_sessions]
    /\ requests' = [requests EXCEPT ![r].pc = "running", ![r].state = EmptyDict]
    /\ UNCHANGED <<hitl_disabled, fn, pending_sessions, loop, par>>

\* the request has its response, or the exception of its run
RequestReturn(r) ==
    /\ requests[r].pc = "running"
    /\ call.phase = "done"
    /\ call' = NoCall
    /\ requests' = [requests EXCEPT ![r].pc = "done", ![r].outcome = call.outcome]
    /\ UNCHANGED <<hitl_disabled, fn, pending_sessions, loop, par>>

\* the lists of previously used strategies select_strategy is called with
StrategyLists ==
    UNION { [1..n -> Range(RewriteStrategies)] : n \in 0..Len(RewriteStrategies) }

CallSelectStrategy ==
    /\ fn.name = "none"
    /\ loop.pc = "idle"
    /\ \E retry_count \in 0..(MaxCount + 1), previous_strategies \in StrategyLists :
          fn' = [name |-> "select_strategy",
                 args |-> [retry_count |-> retry_count,
                           previous_strategies |-> previous_strategies],
                 ret |-> select_strategy(retry_count, previous_strategies)]
    /\ UNCHANGED <<requests, hitl_disabled, pending_sessions, call, loop, par>>

InitFn ==
    /\ hitl_disabled = TRUE
    /\ fn = [name |-> "none"]
    /\ pending_sessions = EmptyDict
    /\ call = NoCall
    /\ loop = NoLoop
    /\ par = NoPar
    /\ requests = NoRequests

NextFn ==
    \/ CallRouteAfterAnalysis
    \/ CallRouteAfterHitlResponse
    \/ CallRouteAfterEvaluation
    \/ CallShouldClarify
    \/ CallShouldCorrect
    \/ CallDecomposeQuery
    \/ CallCreateDefaultParallelGroups
    \/ CallBuildResponse
    \/ CallRefineQuery

SpecFn == InitFn /\ [][NextFn]_vars

----------------------------------------------------------------------------
(* The orchestrator as shipped (HITL trigger disabled) and with the trigger  *)
(* of hitl_controller.py:52-63 enabled                                     *)

Init ==
    /\ hitl_disabled = TRUE
    /\ fn = [name |-> "none"]
    /\ pending_sessions = EmptyDict
    /\ call = NoCall
    /\ loop = NoLoop
    /\ par = NoPar
    /\ requests = NoRequests

Next ==
    \/ ProcessQuery
    \/ ChatClarify
    \/ GraphStep
    \/ Return

Spec == Init /\ [][Next]_vars

InitHITL ==
    /\ hitl_disabled = FALSE
    /\ fn = [name |-> "none"]
    /\ pending_sessions = EmptyDict
    /\ call = NoCall
    /\ loop = NoLoop
    /\ par = NoPar
    /\ requests = NoRequests

SpecHITL == InitHITL /\ [][Next]_vars

\* _run_graph awaits every node of the run in turn (orchestrator.py:262-266):
\* a started run is continued as long as its collaborator calls return
\* the requests of one session, with an empty query or the query "a"
NextOneSession ==
    \/ ProcessQuery /\ call'.session_id = "s1" /\ call'.query \in {<<>>, <<"a">>}
    \/ ChatClarify /\ call'.session_id = "s1"
    \/ GraphStep
    \/ Return

SpecHITLFair == InitHITL /\ [][NextOneSession]_vars /\ WF_vars(GraphStep)

\* the orchestrator and the corrective engine
NextCorrective ==
    \/ ProcessQuery
    \/ ChatClarify
    \/ GraphStep
    \/ Return
    \/ RunCorrectionLoop
    \/ CorrectionStep
    \/ LoopReturn

SpecCorrective == Init /\ [][NextCorrective]_vars

\* the query rewriter: select_strategy called directly, and the rewrites of
\* run_correction_loop
NextRewrite ==
    \/ CallSelectStrategy
    \/ fn.name = "none" /\ RunCorrectionLoop
    \/ CorrectionStep
    \/ LoopReturn

SpecRewrite == Init /\ [][NextRewrite]_vars

\* two requests answer the clarification of one suspended session at the
\* same time
InitConcurrent ==
    /\ hitl_disabled = FALSE
    /\ fn = [name |-> "none"]
    /\ pending_sessions \in
           { Put(EmptyDict, SuspendedSession, stored_state) :
               stored_state \in SuspendedStates(<<"a">>, SuspendedSession) }
    /\ call = NoCall
    /\ loop = NoLoop
    /\ par = NoPar
    /\ requests = NoRequests

NextConcurrent ==
    \/ \E r \in RequestIds : RequestProcessQuery(r)
    \/ \E r \in RequestIds : HandleClarification(r)
    \/ \E r \in RequestIds : ClarificationProcessQuery(r)
    \/ \E r \in RequestIds : RequestRunGraph(r)
    \/ GraphStep
    \/ \E r \in RequestIds : RequestReturn(r)

SpecConcurrent == InitConcurrent /\ [][NextConcurrent]_vars

\* the agentic controller's parallel retrieval
NextAgentic ==
    \/ ExecuteParallelRetrieval
    \/ TaskCompletes
    \/ Gather
    \/ ParReturn

SpecAgentic == Init /\ [][NextAgentic]_vars

----------------------------------------------------------------------------
(* Claims *)


C2_MetricsRoute ==
    (fn.name = "route_after_evaluation" /\ "retrieved_docs" \notin DOMAIN fn.args) =>
        LET avg == Get(fn.args, "avg_relevance", 0)
            high == Get(fn.args, "high_relevance_count", 0)
            retry == Get(fn.args, "retry_count", 0)
        IN  fn.ret = IF high >= min_high_relevance_docs \/ avg >= relevance_threshold
                     THEN "generate"
                     ELSE IF retry < max_correction_retries THEN "rewrite"
                     ELSE "web_search"

\* C3: route_after_analysis returns "clarify" iff clarification_needed and
\* interaction_count < max_hitl_interactions, otherwise "decompose" iff
\* complexity is "complex", otherwise "retrieve"; missing fields read as
\* false / 0 / "simple".
C3_AnalysisRoute ==
    fn.name = "route_after_analysis" =>
        LET needed == "clarification_needed" \in DOMAIN fn.args
                      /\ fn.args.clarification_needed
            count == IF "interaction_count" \in DOMAIN fn.args
                     THEN fn.args.interaction_count ELSE 0
            complex == "complexity" \in DOMAIN fn.args
                       /\ fn.args.complexity = "complex"
        IN  /\ (fn.ret = "clarify") <=> (needed /\ count < max_hitl_interactions)
            /\ (fn.ret = "decompose") <=>
                   (~(needed /\ count < max_hitl_interactions) /\ complex)
            /\ (fn.ret = "retrieve") <=>
                   (~(needed /\ count < max_hitl_interactions) /\ ~complex)
            /\ (fn.args = EmptyDict => fn.ret = "retrieve")

\* a complex query that needs clarification with the limit reached is
\* decomposed, not clarified
C3_Witness ==
    /\ fn.name = "route_after_analysis"
    /\ DOMAIN fn.args = {"clarification_needed", "complexity", "interaction_count"}
    /\ fn.args.clarification_needed
    /\ fn.args.complexity = "complex"
    /\ fn.args.interaction_count = max_hitl_interactions
    /\ fn.ret = "decompose"

\* C4: should_clarify returns true iff interaction_count <
\* max_hitl_interactions and (is_ambiguous or clarity_confidence < 0.8).
C4_ShouldClarifyIff ==
    fn.name = "should_clarify" =>
        (fn.ret <=> (/\ fn.args.interaction_count < max_hitl_interactions
                     /\ (fn.args.is_ambiguous
                         \/ fn.args.clarity_confidence < CLARITY_THRESHOLD)))

\* C5: should_clarify is false for every input with interaction_count >=
\* max_hitl_interactions, whatever is_ambiguous and clarity_confidence are.
C5_NoClarifyAtLimit ==
    (fn.name = "should_clarify"
     /\ fn.args.interaction_count >= max_hitl_interactions) => fn.ret = FALSE

\* an ambiguous, unclear query at the limit is not clarified
C5_Witness ==
    /\ fn.name = "should_clarify"
    /\ fn.args.interaction_count = max_hitl_interactions
    /\ fn.args.is_ambiguous
    /\ fn.args.clarity_confidence < CLARITY_THRESHOLD
    /\ fn.ret = FALSE

Raised == {"ValidationException", "LLMException", "VectorStoreException",
           "NoResultsException"}
\* `not query or not query.strip()`
Blank(text) == strip(text) = <<>>

\* C7: a fresh process_query whose analysis reports the query ambiguous
\* (is_ambiguous, or clarity_confidence < 0.8) at interaction_count 0 returns a
\* ClarificationOutput, and afterwards the session is pending.
C7_AmbiguousInterrupts ==
    (/\ call.phase = "done"
     /\ call.kind = "fresh"
     /\ call.state.current_node # "start"
     /\ (call.state.is_ambiguous
         \/ call.state.clarity_confidence < CLARITY_THRESHOLD)) =>
        /\ call.outcome = "ClarificationOutput"
        /\ call.session_id \in DOMAIN call.pending_after

\* C8: process_query with a non-empty user_response on a session that has a
\* pending entry removes the entry, injects the response into the stored state
\* and runs the continuation graph from process_hitl_response (analyze_query
\* does not run, the stored query is the one kept); a run that completes returns
\* a RAGResponse and leaves the session not pending.
C8_Resume ==
    (/\ call.phase # "idle"
     /\ call.kind # "rejected"
     /\ call.user_response # <<>>
     /\ call.session_id \in DOMAIN call.pending_before) =>
        /\ call.kind = "resume"
        /\ call.session_id \notin DOMAIN pending_sessions
        /\ call.state.user_response = call.user_response
        /\ call.state.query = call.pending_before[call.session_id].query
        /\ "analyze_query" \notin Range(call.visited)
        /\ IF call.visited = <<>> THEN call.next = "process_hitl_response"
           ELSE call.visited[1] = "process_hitl_response"
        /\ (call.phase = "done" /\ call.outcome \notin Raised =>
               /\ call.outcome = "RAGResponse"
               /\ call.session_id \notin DOMAIN call.pending_after)

\* a resumed run completed with a response although the query passed with the
\* resume is not the stored one
C8_Witness ==
    /\ call.phase = "done"
    /\ call.kind = "resume"
    /\ call.via = "process_query"
    /\ call.outcome = "RAGResponse"
    /\ call.query # call.state.query
    /\ call.visited[1] = "process_hitl_response"
    /\ call.session_id \in DOMAIN call.pending_before
    /\ ~has_pending_session(call.session_id)

\* C9 (as claimed): process_query with a user_response and a session_id that
\* has no pending entry is rejected: no node runs, the registry is unchanged.
C9_UnknownSessionRejected ==
    (/\ call.phase # "idle"
     /\ call.user_response # <<>>
     /\ call.session_id \notin DOMAIN call.pending_before) =>
        /\ call.kind = "rejected"
        /\ call.visited = <<>>
        /\ pending_sessions = call.pending_before

\* C9 (amended): the rejection is the API handler's.  POST /chat/clarify for a
\* session without a pending entry answers 400 without calling process_query
\* (no node runs, registry unchanged); process_query itself, called for such a
\* session, runs its query as a fresh request from analyze_query.
C9_RejectedByHandler ==
    (call.phase # "idle" /\ call.session_id \notin DOMAIN call.pending_before) =>
        /\ (call.via = "chat_clarify" =>
               /\ call.kind = "rejected"
               /\ call.outcome = "HTTP400"
               /\ call.visited = <<>>
               /\ pending_sessions = call.pending_before)
        /\ (call.via = "process_query" =>
               /\ call.kind = "fresh"
               /\ call.state.query = call.query
               /\ IF call.visited = <<>> THEN call.next = "analyze_query"
                  ELSE call.visited[1] = "analyze_query")

C9_Witness ==
    /\ call.phase = "done"
    /\ call.via = "chat_clarify"
    /\ call.user_response # <<>>
    /\ ~has_pending_session(call.session_id)
    /\ call.outcome = "HTTP400"
    /\ call.visited = <<>>

\* C10: process_query with an empty or whitespace-only query raises the
\* validation error instead of returning a response; no node after
\* analyze_query runs and no session becomes pending.
C10_BlankQueryRejected ==
    (call.phase # "idle" /\ call.via = "process_query" /\ Blank(call.query)) =>
        /\ call.kind = "fresh"
        /\ pending_sessions = call.pending_before
        /\ IF call.phase = "running"
           THEN call.visited = <<>> /\ call.next = "analyze_query"
           ELSE /\ call.outcome = "ValidationException"
                /\ call.visited = <<"analyze_query">>
                /\ call.pending_after = call.pending_before

\* a whitespace-only query was refused by analyze_query
C10_Witness ==
    /\ call.phase = "done"
    /\ call.via = "process_query"
    /\ call.query = <<" ", " ">>
    /\ call.outcome = "ValidationException"
    /\ call.visited = <<"analyze_query">>
    /\ pending_sessions = EmptyDict

CountNode(visited, node) ==
    Cardinality({ i \in DOMAIN visited : visited[i] = node })

\* C11: in every state of run_correction_loop and of a graph run, retry_count
\* is at most the maximum number of correction retries (which is >= 1), the
\* rewrites performed are as many as retry_count, and a rewrite is performed
\* only from a state with retry_count below the maximum.
C11_RetryBound ==
    /\ [](/\ (loop.pc # "idle" =>
                /\ loop.self.max_retries >= 1
                /\ loop.retry_count <= loop.self.max_retries
                /\ Len(loop.rewritten_queries) = loop.retry_count + 1)
          /\ (call.phase # "idle" /\ call.kind # "rejected" =>
                /\ Get(call.state, "retry_count", 0) <= max_correction_retries
                /\ CountNode(call.visited, "rewrite_query")
                       = Get(call.state, "retry_count", 0)))
    /\ [][/\ (loop'.pc # "idle" /\ loop'.retry_count # loop.retry_count =>
                /\ loop.retry_count < loop.self.max_retries
                /\ loop'.retry_count = loop.retry_count + 1)
          /\ (call'.phase # "idle" /\ call.phase # "idle"
              /\ Get(call'.state, "retry_count", 0) # Get(call.state, "retry_count", 0)
              => Get(call.state, "retry_count", 0) < max_correction_retries)]_vars

\* the loop used every retry it has
C11_Witness ==
    /\ loop.pc = "done"
    /\ loop.outcome = "returned"
    /\ loop.self.max_retries = MaxCount
    /\ loop.retry_count = MaxCount
    /\ Len(loop.rewritten_queries) = MaxCount + 1

AllInsufficient == \A i \in DOMAIN loop.attempts : ~loop.attempts[i]

\* C13: when every retrieval of a run_correction_loop call is insufficient,
\* the call makes exactly max_retries rewrites and returns retry_count =
\* max_retries, action_taken = "web_search" and web_search_needed = true.
C13_ExhaustedRetries ==
    (loop.pc = "done" /\ loop.outcome = "returned" /\ AllInsufficient) =>
        /\ Len(loop.attempts) = loop.self.max_retries + 1
        /\ Len(loop.rewritten_queries) = loop.self.max_retries + 1
        /\ loop.result.retry_count = loop.self.max_retries
        /\ loop.result.action_taken = "web_search"
        /\ loop.result.web_search_needed = TRUE

\* max_retries = 2 and three insufficient retrievals: two rewrites, web search
C13_Witness ==
    /\ loop.pc = "done"
    /\ loop.outcome = "returned"
    /\ loop.self.max_retries = 2
    /\ loop.attempts = <<FALSE, FALSE, FALSE>>
    /\ loop.result.retry_count = 2
    /\ loop.result.action_taken = "web_search"
    /\ loop.result.web_search_needed

InteractionCount(state) == Get(state, "interaction_count", 0)

\* C12: every state of a run and every pending state has interaction_count <=
\* max_hitl_interactions; clarify_hitl is the only node that changes
\* interaction_count, it runs only from a state with interaction_count below
\* the maximum and adds one; the count of a state never decreases during its
\* run, when it is stored as pending, or when it is resumed.
C12_InteractionBound ==
    /\ [](/\ (call.phase # "idle" /\ call.kind # "rejected" =>
                InteractionCount(call.state) <= max_hitl_interactions)
          /\ \A sid \in DOMAIN pending_sessions :
                InteractionCount(pending_sessions[sid]) <= max_hitl_interactions)
    /\ [][/\ (call.phase = "running" /\ call'.phase # "idle" =>
                IF call'.visited = Append(call.visited, "clarify_hitl")
                   /\ call'.outcome \notin Raised
                THEN /\ InteractionCount(call.state) < max_hitl_interactions
                     /\ InteractionCount(call'.state)
                            = InteractionCount(call.state) + 1
                ELSE InteractionCount(call'.state) = InteractionCount(call.state))
          /\ (call.phase = "idle" /\ call'.kind = "resume" =>
                InteractionCount(call'.state)
                    = InteractionCount(pending_sessions[call'.session_id]))
          /\ \A sid \in DOMAIN pending_sessions' :
                (sid \notin DOMAIN pending_sessions
                 \/ pending_sessions'[sid] # pending_sessions[sid]) =>
                    /\ sid = call'.session_id
                    /\ InteractionCount(pending_sessions'[sid])
                           = InteractionCount(call'.state)]_vars

\* a clarification was asked (count 1), stored, and the resumed run finished
\* with the same count
C12_Witness ==
    /\ call.phase = "done"
    /\ call.kind = "resume"
    /\ call.outcome = "RAGResponse"
    /\ InteractionCount(call.pending_before[call.session_id]) = 1
    /\ InteractionCount(call.state) = 1
    /\ \E sid \in DOMAIN pending_sessions :
          InteractionCount(pending_sessions[sid]) = 1

\* C15: when the model's decomposition has fewer than 2 sub-questions or the
\* structured call fails, decompose_query returns exactly one sub-question
\* with id "q1", the original query as its question and no dependencies, and
\* parallel_groups = [["q1"]].
C15_DecompositionFallback ==
    (fn.name = "decompose_query"
     /\ (~fn.args.llm.ok \/ Len(fn.args.llm.sub_questions) < 2)) =>
        /\ fn.ret.sub_questions =
               <<[id |-> "q1", question |-> fn.args.query, dependencies |-> <<>>]>>
        /\ fn.ret.parallel_groups = << <<"q1">> >>

\* the model answered with one sub-question, which is not the original query
C15_Witness ==
    /\ fn.name = "decompose_query"
    /\ fn.args.llm.ok
    /\ Len(fn.args.llm.sub_questions) = 1
    /\ fn.args.llm.sub_questions[1].question # fn.args.query
    /\ Len(fn.ret.sub_questions) = 1
    /\ fn.ret.sub_questions[1].question = fn.args.query
    /\ fn.ret.parallel_groups = << <<"q1">> >>

\* the ids of all the waves, one after the other
RECURSIVE Flatten(_)
Flatten(groups) ==
    IF groups = <<>> THEN <<>> ELSE Head(groups) \o Flatten(Tail(groups))

\* C16: for every list of sub-questions with distinct ids and arbitrary
\* dependencies (cycles, self-dependencies, ids outside the list),
\* _create_default_parallel_groups returns (after at most one wave per
\* sub-question), returns the same waves when run again, and every id is in
\* exactly one wave.
C16_WaveConstruction ==
    fn.name = "create_default_parallel_groups" =>
        LET ids == Flatten(fn.ret)
        IN  /\ Len(fn.ret) <= Len(fn.args)
            /\ \A w \in DOMAIN fn.ret : fn.ret[w] # <<>>
            /\ fn.ret = create_default_parallel_groups(fn.args)
            /\ Len(ids) = Len(fn.args)
            /\ \A i \in DOMAIN fn.args :
                  Cardinality({ k \in DOMAIN ids : ids[k] = fn.args[i].id }) = 1

\* a question without dependencies, then two questions in a cycle that also
\* depend on it: two waves, the cycle in the last one
C16_Witness ==
    /\ fn.name = "create_default_parallel_groups"
    /\ Len(fn.args) = 3
    /\ fn.args[1].dependencies = <<>>
    /\ fn.args[2].dependencies = <<"q1", "q3">>
    /\ fn.args[3].dependencies = <<"q1", "q2">>
    /\ fn.ret = << <<"q1">>, <<"q2", "q3">> >>

AnswerIds == [i \in DOMAIN par.sub_answers |-> par.sub_answers[i].question_id]

\* every dependency id is the id of a question of the batch
Resolvable(sub_questions) ==
    \A i \in DOMAIN sub_questions :
        Range(sub_questions[i].dependencies) \subseteq Range(Ids(sub_questions))

\* no set of questions in which every question depends on one of the set
Acyclic(sub_questions) ==
    \A S \in SUBSET (DOMAIN sub_questions) :
        S # {} =>
            \E i \in S : \A j \in S :
                sub_questions[j].id \notin Range(sub_questions[i].dependencies)

\* every task launched has finished and left one sub answer, in the order of
\* the waves; a task whose retrieval succeeded has its own result
WaveCompleted ==
    /\ AnswerIds = Flatten(par.waves)
    /\ DOMAIN par.outcomes = Range(AnswerIds)
    /\ par.completed_ids = Range(AnswerIds)
    /\ \A i \in DOMAIN par.sub_answers :
          LET answer == par.sub_answers[i]
              outcome == par.outcomes[answer.question_id]
              question == question_map(par.decomposition.sub_questions,
                                       answer.question_id)
          IN  outcome.ok =>
                  answer = SubAnswer(question, outcome.answer, outcome.sources,
                                     outcome.confidence)
    /\ (/\ par.decomposition.parallel_groups
               = create_default_parallel_groups(par.decomposition.sub_questions)
        /\ Resolvable(par.decomposition.sub_questions)
        /\ Acyclic(par.decomposition.sub_questions)
        => Len(par.sub_answers) = Len(par.decomposition.sub_questions))

\* the answer of a failed sub-question: the placeholder, or the error prefix
\* followed by the exception's message
FailedAnswer(placeholder, outcome) ==
    IF placeholder THEN NOT_FOUND_ANSWER ELSE ERROR_ANSWER_PREFIX \o outcome.answer

\* the sub answers of the questions whose retrieval failed have no sources,
\* confidence 0 and the placeholder or the error answer
FailedAnswersAre(placeholder) ==
    \A i \in DOMAIN par.sub_answers :
        LET answer == par.sub_answers[i]
            outcome == par.outcomes[answer.question_id]
            question == question_map(par.decomposition.sub_questions,
                                     answer.question_id)
        IN  ~outcome.ok =>
                answer = SubAnswer(question, FailedAnswer(placeholder, outcome), <<>>, 0)

C18_RetrievalSource ==
    fn.name = "build_response" =>
        LET triggered == Get(fn.args, "web_search_triggered", FALSE)
            docs == Get(fn.args, "retrieved_docs", <<>>)
        IN  /\ ~triggered => fn.ret.retrieval_source = "vector"
            /\ triggered /\ docs = <<>> => fn.ret.retrieval_source = "web"
            /\ triggered /\ docs # <<>> => fn.ret.retrieval_source = "hybrid"

C18_Witness ==
    /\ fn.name = "build_response"
    /\ "web_search_triggered" \in DOMAIN fn.args
    /\ fn.args["web_search_triggered"]
    /\ Get(fn.args, "retrieved_docs", <<>>) # <<>>
    /\ fn.ret.retrieval_source = "hybrid"

Visited(node) == \E i \in DOMAIN call.visited : call.visited[i] = node

\* C19: once the web_search node has run in a graph run, whether the search
\* gave results, gave none or raised, web_search_triggered is true in the
\* state, and the response the run returns has needs_disclaimer true.
C19_DisclaimerOnWebSearch ==
    (call.phase # "idle" /\ Visited("web_search")) =>
        /\ Get(call.state, "web_search_triggered", FALSE)
        /\ (call.phase = "done" /\ call.outcome = "RAGResponse" =>
                /\ call.response.needs_disclaimer
                /\ Get(call.state, "needs_disclaimer", FALSE))

\* the search raised, and the response returned carries the disclaimer
C19_Witness ==
    /\ call.phase = "done"
    /\ call.outcome = "RAGResponse"
    /\ Visited("web_search")
    /\ Visited("evaluate_quality")
    /\ Get(call.state, "error_log", <<>>) = <<"Web search error">>
    /\ Get(call.state, "web_results", <<"none">>) = <<>>
    /\ call.response.needs_disclaimer

\* the nodes of test_happy_path_complete_flow, in order
HAPPY_PATH ==
    <<"analyze_query", "retrieve", "evaluate_relevance", "generate_response",
      "evaluate_quality">>

\* a fresh run whose analysis reported a clear (0.9 or more), unambiguous,
\* simple query and whose retrieval, once it has run, returned a document
HappyRun ==
    /\ call.phase # "idle"
    /\ call.kind = "fresh"
    /\ Visited("analyze_query")
    /\ Get(call.state, "clarity_confidence", 0) >= 9
    /\ ~Get(call.state, "is_ambiguous", TRUE)
    /\ Get(call.state, "complexity", "none") = "simple"
    /\ (Visited("retrieve") => Get(call.state, "retrieved_docs", <<>>) # <<>>)

\* C20: a fresh run with a clear, unambiguous, simple query and at least one
\* retrieved document executes analyze_query, retrieve, evaluate_relevance,
\* generate_response, evaluate_quality in this order and nothing else (so
\* never clarify_hitl, decompose_query, rewrite_query or web_search), and
\* unless one of these nodes raises it returns a RAGResponse after all five.
C20_HappyPath ==
    HappyRun =>
        /\ Len(call.visited) <= Len(HAPPY_PATH)
        /\ call.visited = SubSeq(HAPPY_PATH, 1, Len(call.visited))
        /\ (call.phase = "running" => call.next = HAPPY_PATH[Len(call.visited) + 1])
        /\ (call.phase = "done" =>
                \/ call.outcome \in Raised
                \/ call.outcome = "RAGResponse" /\ call.visited = HAPPY_PATH)

\* the five nodes ran on a poorly matching document and a response came back
C20_Witness ==
    /\ HappyRun
    /\ call.phase = "done"
    /\ call.outcome = "RAGResponse"
    /\ call.visited = HAPPY_PATH
    /\ Get(call.state, "high_relevance_count", 1) = 0
    /\ call.response.retrieval_source = "vector"
    /\ ~call.response.needs_disclaimer

\* the longest path of the graph: an entry node, decompose_query, retrieve and
\* evaluate_relevance, the cycle through rewrite_query once per retry,
\* web_search, generate_response, evaluate_quality
MaxNodeExecutions == 7 + 3 * max_correction_retries

\* C21: every fresh or resumed graph run ends; it executes a bounded number
\* of nodes, goes through rewrite_query at most max_correction_retries times,
\* and when no node raises it ends at evaluate_quality or at clarify_hitl.
C21_RunTerminates ==
    /\ [](/\ Len(call.visited) <= MaxNodeExecutions
          /\ CountNode(call.visited, "rewrite_query") <= max_correction_retries
          /\ (call.phase = "done" /\ call.outcome \in {"RAGResponse",
                                                        "ClarificationOutput"} =>
                 call.visited[Len(call.visited)] \in {"evaluate_quality",
                                                      "clarify_hitl"}))
    /\ ((call.phase = "running") ~> (call.phase = "done"))

\* a resumed run ended at evaluate_quality after the web search
C21_Witness ==
    /\ call.phase = "done"
    /\ call.kind = "resume"
    /\ call.outcome = "RAGResponse"
    /\ Visited("web_search")
    /\ call.visited[Len(call.visited)] = "evaluate_quality"

\* `sub in text` of Python strings
Contains(text, sub) ==
    \E i \in 0..(Len(text) - Len(sub)) : SubSeq(text, i + 1, i + Len(sub)) = sub

\* C22: when the model call fails, refine_query returns
\* "{original_query} ({user_response})", where the user response is the custom
\* input if given and the selected option otherwise; the returned string
\* contains the original query and the response text.
C22_RefineQueryFallback ==
    (fn.name = "refine_query" /\ ~fn.args.llm.ok) =>
        LET original_query == fn.args.original_query
            response == fn.args.user_response
            response_text == IF response.custom_input # <<>>
                             THEN response.custom_input
                             ELSE response.selected_option
        IN  /\ fn.ret = original_query \o <<" ", "(">> \o response_text \o <<")">>
            /\ Contains(fn.ret, original_query)
            /\ Contains(fn.ret, response_text)

\* the call failed with an option selected and no custom input
C22_Witness ==
    /\ fn.name = "refine_query"
    /\ ~fn.args.llm.ok
    /\ fn.args.original_query = <<"a">>
    /\ fn.args.user_response = [selected_option |-> <<"m">>, custom_input |-> <<>>]
    /\ fn.ret = <<"a", " ", "(", "m", ")">>

LastVisited == call.visited[Len(call.visited)]

\* C23: in the main graph clarify_hitl is the last node of its run: the run
\* ends there with current_node "clarify_hitl" and interaction_count one
\* higher than before the node, process_query stores the final state under the
\* session id and returns a ClarificationOutput.  A fresh run that ends at
\* evaluate_quality stores nothing and returns a RAGResponse.
C23_ClarifyInterrupts ==
    /\ []((call.graph = "main" /\ Visited("clarify_hitl")) =>
            /\ call.phase = "done"
            /\ LastVisited = "clarify_hitl"
            /\ CountNode(call.visited, "clarify_hitl") = 1
            /\ call.state.current_node = "clarify_hitl"
            /\ call.outcome = "ClarificationOutput"
            /\ call.pending_after = Put(call.pending_before, call.session_id,
                                        call.state)
            /\ pending_sessions = call.pending_after)
    /\ []((/\ call.graph = "main"
           /\ call.phase = "done"
           /\ LastVisited = "evaluate_quality"
           /\ call.outcome \notin Raised) =>
            /\ call.outcome = "RAGResponse"
            /\ call.pending_after = call.pending_before
            /\ pending_sessions = call.pending_before)
    /\ [][(call.phase = "running" /\ call.graph = "main"
           /\ call.next = "clarify_hitl") =>
             call'.state.interaction_count
                 = Get(call.state, "interaction_count", 0) + 1]_vars

\* a fresh run was interrupted while another session was already pending
C23_Witness ==
    /\ call.phase = "done"
    /\ call.graph = "main"
    /\ call.outcome = "ClarificationOutput"
    /\ LastVisited = "clarify_hitl"
    /\ call.state.interaction_count = 1
    /\ call.pending_before # EmptyDict
    /\ call.session_id \notin DOMAIN call.pending_before
    /\ pending_sessions[call.session_id] = call.state

\* C24 (as claimed): a resumed run whose stored analysis is still ambiguous,
\* with interaction_count below max_hitl_interactions, ends at a clarification
\* interrupt: process_query returns a ClarificationOutput again and the
\* session popped at the resume is pending again under the same id.
C24_NestedClarification ==
    (/\ call.phase = "done"
     /\ call.kind = "resume"
     /\ call.outcome \notin Raised
     /\ LET stored == call.pending_before[call.session_id]
        IN  stored.is_ambiguous \/ stored.clarity_confidence < CLARITY_THRESHOLD
     /\ Get(call.state, "interaction_count", 0) < max_hitl_interactions) =>
        /\ call.outcome = "ClarificationOutput"
        /\ call.session_id \in DOMAIN pending_sessions

\* C25: run_correction_loop never returns action_taken "rewrite": it returns
\* "proceed" or "web_search", since the loop is left only with retry_count >=
\* max_retries, high_relevance_count >= min_high_relevance_docs or
\* avg_relevance >= relevance_threshold.
C25_TerminalActionNotRewrite ==
    (loop.pc = "done" /\ loop.outcome = "returned") =>
        /\ loop.self.max_retries >= 1
        /\ loop.result.action_taken \in {"proceed", "web_search"}
        /\ \/ loop.result.retry_count >= loop.self.max_retries
           \/ loop.state.high_relevance_count >= loop.self.min_high_relevance_docs
           \/ loop.state.avg_relevance >= loop.self.relevance_threshold

\* the loop was left by the retry limit alone, after one rewrite
C25_Witness ==
    /\ loop.pc = "done"
    /\ loop.outcome = "returned"
    /\ loop.self.max_retries = 1
    /\ loop.result.retry_count = 1
    /\ loop.state.high_relevance_count < loop.self.min_high_relevance_docs
    /\ loop.state.avg_relevance < loop.self.relevance_threshold
    /\ loop.result.action_taken = "web_search"

\* C26 (as claimed): run_correction_loop returns action_taken "proceed"
\* exactly when the sufficient flag of the final metrics is true, and
\* "web_search" exactly when the retries are exhausted and the flag is false.
C26_ActionAgreesWithSufficient ==
    (loop.pc = "done" /\ loop.outcome = "returned") =>
        /\ (loop.result.action_taken = "proceed")
               <=> loop.result.metrics.sufficient
        /\ (loop.result.action_taken = "web_search")
               <=> (/\ loop.result.retry_count >= loop.self.max_retries
                    /\ ~loop.result.metrics.sufficient)

\* the wave an id was placed in
WaveOf(groups, id) == CHOOSE w \in DOMAIN groups : id \in Range(groups[w])

\* every dependency of the question is in a wave before wave w
DependenciesBefore(sub_questions, groups, question, w) ==
    \A d \in Range(question.dependencies) :
        /\ d \in Range(Ids(sub_questions))
        /\ WaveOf(groups, d) < w

\* C27: for sub-questions with distinct ids, _create_default_parallel_groups
\* places every question after all its dependencies when the dependencies
\* resolve within the batch and have no cycle; otherwise the waves before the
\* last are still so ordered and the last wave holds together all the
\* questions that could not be placed, none of which has its dependencies met.
C27_WaveDependencyOrder ==
    fn.name = "create_default_parallel_groups" =>
        LET sub_questions == fn.args
            groups == fn.ret
            Ordered(w) ==
                \A i \in DOMAIN sub_questions :
                    sub_questions[i].id \in Range(groups[w]) =>
                        DependenciesBefore(sub_questions, groups, sub_questions[i], w)
            Stuck(w) ==
                \A i \in DOMAIN sub_questions :
                    sub_questions[i].id \in Range(groups[w]) =>
                        ~DependenciesBefore(sub_questions, groups, sub_questions[i], w)
        IN  /\ \A w \in DOMAIN groups : w < Len(groups) => Ordered(w)
            /\ groups # <<>> => Ordered(Len(groups)) \/ Stuck(Len(groups))
            /\ (Resolvable(sub_questions) /\ Acyclic(sub_questions))
                   <=> \A w \in DOMAIN groups : Ordered(w)

\* a chain q1 <- q2 <- q3 placed in three waves
C27_Witness ==
    /\ fn.name = "create_default_parallel_groups"
    /\ Len(fn.args) = 3
    /\ fn.args[1].dependencies = <<>>
    /\ fn.args[2].dependencies = <<"q1">>
    /\ fn.args[3].dependencies = <<"q1", "q2">>
    /\ fn.ret = << <<"q1">>, <<"q2">>, <<"q3">> >>

\* the ids launched in the waves before wave w
LaunchedBefore(w) == UNION { Range(par.waves[v]) : v \in 1..(w - 1) }

\* C28: execute_parallel_retrieval takes parallel_groups in list order; while
\* the tasks of a wave run, every task of the earlier waves has completed
\* (with a result or a captured failure) and no other task has started; and
\* every sub-question launched has each of its dependencies completed in an
\* earlier wave.
C28_WaveBarrier ==
    /\ [](par.pc # "idle" =>
            /\ \A w \in DOMAIN par.waves :
                  /\ \A qid \in Range(par.waves[w]) :
                        Range(question_map(par.decomposition.sub_questions,
                                           qid).dependencies)
                            \subseteq LaunchedBefore(w)
                  /\ LaunchedBefore(w) \subseteq par.completed_ids
                  /\ LaunchedBefore(w) \subseteq DOMAIN par.outcomes
            /\ (par.pc = "wave" =>
                  /\ par.executable = par.waves[Len(par.waves)]
                  /\ Range(par.executable)
                        \subseteq Range(par.decomposition.parallel_groups[par.group])
                  /\ par.completed_ids = LaunchedBefore(Len(par.waves))
                  /\ DOMAIN par.results \subseteq Range(par.executable)
                  /\ DOMAIN par.outcomes
                        = par.completed_ids \cup DOMAIN par.results))
    /\ [][(par.pc = "wave" /\ par'.pc = "wave" /\ par'.waves # par.waves) =>
             /\ par'.group > par.group
             /\ DOMAIN par.results = Range(par.executable)
             /\ par'.waves = Append(par.waves, par'.executable)]_vars

\* the second wave runs a question whose dependency failed in the first wave
C28_Witness ==
    /\ par.pc = "wave"
    /\ par.waves = << <<"q1", "q2">>, <<"q3">> >>
    /\ par.completed_ids = {"q1", "q2"}
    /\ ~par.outcomes["q2"].ok
    /\ question_map(par.decomposition.sub_questions, "q3").dependencies = <<"q2">>
    /\ par.results = EmptyDict

\* a run that returned a response without going through web_search
ReturnedWithoutWebSearch ==
    /\ call.phase = "done"
    /\ call.outcome = "RAGResponse"
    /\ ~Visited("web_search")
    /\ ~Get(call.state, "web_search_triggered", FALSE)

\* the evaluations QualityEvaluator.evaluate can have returned for the
\* response of the run, given the confidence the run recorded
RunEvaluations ==
    { quality_evaluate(Get(call.state, "generated_response", <<>>), llm).value :
        llm \in { a \in QualityAnswers :
                    LET e == quality_evaluate(
                                 Get(call.state, "generated_response", <<>>), a)
                    IN  /\ e.raised = "none"
                        /\ e.value.confidence = call.state.response_confidence } }

C30_LoopCatchesFailures ==
    loop.pc = "done" =>
        /\ loop.outcome = "returned"
        /\ loop.result.action_taken \in {"proceed", "web_search"}

\* the exceptions of DocumentRetriever.retrieve
RetrievalErrors == {"VectorStoreException", "NoResultsException"}

\* the graph run has just executed retrieve_documents and the retrieval raised
\* (the retriever returns no empty list: it raises NoResultsException)
RetrievalRaisedInRun ==
    /\ call.phase = "running"
    /\ call.visited # <<>>
    /\ LastVisited = "retrieve"
    /\ Get(call.state, "retrieved_docs", <<>>) = <<>>

\* C31: a retrieval that raises (the no-results error included) counts as no
\* documents.  No exception of the retriever reaches the caller of a graph run
\* or of run_correction_loop; a graph run whose retrieval raised holds an empty
\* retrieved_docs, goes on to evaluate_relevance and from there to web_search;
\* a retrieval of the loop that raised leaves no documents, avg_relevance 0,
\* high_relevance_count 0 and sufficient false, and the rewrite it belongs to
\* still counts: retry_count is one higher and the query history one longer.
C31_RetrievalErrorsAreEmpty ==
    /\ [](/\ call.outcome \notin RetrievalErrors
          /\ loop.outcome \notin RetrievalErrors
          /\ (RetrievalRaisedInRun => call.next = "evaluate_relevance")
          /\ (loop.pc = "loop" /\ loop.documents = <<>> =>
                 /\ loop.evaluations = <<>>
                 /\ loop.metrics = [avg_relevance |-> 0, high_relevance_count |-> 0,
                                    sufficient |-> FALSE]))
    /\ [][/\ (RetrievalRaisedInRun =>
                 /\ call'.phase = "running"
                 /\ call'.next = "web_search"
                 /\ call'.visited = Append(call.visited, "evaluate_relevance")
                 /\ Get(call'.state, "retrieved_docs", <<>>) = <<>>)
          /\ (loop.pc = "loop" /\ loop'.pc = "loop" /\ loop'.documents = <<>> =>
                 /\ loop'.retry_count = loop.retry_count + 1
                 /\ Len(loop'.rewritten_queries) = Len(loop.rewritten_queries) + 1
                 /\ SubSeq(loop'.rewritten_queries, 1, Len(loop.rewritten_queries))
                        = loop.rewritten_queries
                 /\ loop'.rewritten_queries[1] = loop.query)]_vars

\* a graph run whose retrieval raised is about to run web_search
C31_Witness ==
    /\ call.phase = "running"
    /\ call.next = "web_search"
    /\ LastVisited = "evaluate_relevance"
    /\ Get(call.state, "retrieved_docs", <<>>) = <<>>
    /\ Get(call.state, "avg_relevance", 9) = 0

\* C32: for every retry_count and every list of previously used strategies,
\* select_strategy returns a strategy that is not in the list, unless the list
\* holds all four strategies, and then it returns generalization; the
\* strategies of the rewrites of one run_correction_loop call, which are at
\* most four, are pairwise different, one per retry.
C32_StrategyNeverRepeats ==
    /\ fn.name = "select_strategy" =>
          LET used == Range(fn.args.previous_strategies)
          IN  IF Range(RewriteStrategies) \subseteq used
              THEN fn.ret = "generalization"
              ELSE fn.ret \in Range(RewriteStrategies) \ used
    /\ loop.pc # "idle" /\ loop.retry_count <= Len(RewriteStrategies) =>
          /\ Len(loop.previous_strategies) = loop.retry_count
          /\ \A i, j \in DOMAIN loop.previous_strategies :
                 loop.previous_strategies[i] = loop.previous_strategies[j] => i = j

\* a loop that has rewritten three times, the third time outside the tier of
\* its retry_count
C32_Witness ==
    /\ loop.pc # "idle"
    /\ loop.retry_count = 3
    /\ loop.previous_strategies
           = <<"synonym_expansion", "generalization", "context_addition">>

\* C33 (as claimed): in every DecompositionResult returned by decompose_query,
\* with parallel_groups supplied by the model, derived by
\* _create_default_parallel_groups or taken from the fallback, every id in
\* parallel_groups is the id of one of the sub_questions.
C33_GroupsReferenceKnownQuestions ==
    fn.name = "decompose_query" =>
        Range(Flatten(fn.ret.parallel_groups)) \subseteq Range(Ids(fn.ret.sub_questions))

\* C34 (as claimed): every DecompositionResult returned by decompose_query
\* that is not the single-question fallback has between 2 and 5
\* sub-questions, whatever number of sub-questions the model returned.
C34_SubQuestionCount ==
    (fn.name = "decompose_query"
     /\ fn.ret # create_simple_decomposition(fn.args.query)) =>
        Len(fn.ret.sub_questions) \in 2..MAX_SUB_QUESTIONS


\* C35: of two resume requests (process_query with a user response, called
\* directly or by handle_clarification) for the same pending session that
\* interleave at their suspension points, at most one pops the stored state
\* and runs the continuation graph on it, the other runs as a fresh question,
\* and none fails on a missing registry key.
C35_ResumedAtMostOnce ==
    /\ Cardinality({ r \in RequestIds : requests[r].kind = "resume" }) <= 1
    /\ \A r \in RequestIds :
          /\ requests[r].outcome # "KeyError"
          /\ (requests[r].pc \in {"run_graph", "running"} =>
                 requests[r].kind \in {"resume", "fresh"})

\* both requests passed the has_pending_session test of handle_clarification
\* before either entered process_query; one resumed, the other found no entry
\* and ran as a fresh question
C35_Witness ==
    /\ \A r \in RequestIds :
          requests[r].via = "handle_clarification" /\ requests[r].pc = "done"
    /\ requests["r1"].kind = "resume"
    /\ requests["r1"].outcome = "RAGResponse"
    /\ requests["r2"].kind = "fresh"
    /\ requests["r2"].outcome = "ValidationException"

\* C36 (as claimed): execute_parallel_retrieval returns exactly one SubAnswer
\* for every sub-question of the decomposition, none skipped and none
\* duplicated, also when the waves come from the cycle fallback of
\* _create_default_parallel_groups or hold a question together with one of
\* its dependencies.
C36_OneAnswerPerQuestion ==
    (par.pc = "done" /\ par.outcome = "returned") =>
        /\ Len(par.sub_answers) = Len(par.decomposition.sub_questions)
        /\ \A i \in DOMAIN par.decomposition.sub_questions :
              Cardinality({ k \in DOMAIN AnswerIds :
                              AnswerIds[k] = par.decomposition.sub_questions[i].id }) = 1

\* C37: a resume consumes the pending entry even when it fails.  When the
\* continuation graph raises during a resumed run, the state popped at the
\* start of _continue_with_hitl_response is not put back: the registry is the
\* one before the request without the session, has_pending_session is false,
\* and a request that arrives for a session without an entry is not resumed
\* (POST /chat/clarify answers 400, process_query starts a fresh run).
C37_FailedResumeConsumesEntry ==
    /\ []((call.phase = "done" /\ call.kind = "resume" /\ call.outcome \in Raised) =>
            /\ call.session_id \in DOMAIN call.pending_before
            /\ pending_sessions = Pop(call.pending_before, call.session_id)
            /\ ~has_pending_session(call.session_id))
    /\ [][(call.phase = "idle" /\ call'.phase # "idle"
           /\ ~has_pending_session(call'.session_id)) =>
             /\ call'.kind \in {"fresh", "rejected"}
             /\ (call'.via = "chat_clarify" => call'.outcome = "HTTP400")
             /\ pending_sessions' = pending_sessions]_vars

\* the relevance evaluation of a resumed run raised; the entry of its session
\* is gone while the other session is still pending
C37_Witness ==
    /\ call.phase = "done"
    /\ call.kind = "resume"
    /\ call.outcome = "LLMException"
    /\ LastVisited = "evaluate_relevance"
    /\ call.session_id \in DOMAIN call.pending_before
    /\ ~has_pending_session(call.session_id)
    /\ pending_sessions # EmptyDict

\* the correction fields of a state still have their initial values
NoCorrection(state) ==
    /\ Get(state, "retry_count", 0) = 0
    /\ Get(state, "rewritten_queries", <<>>) = <<>>
    /\ Get(state, "correction_triggered", FALSE) = FALSE

C39_FreshQuestionKeepsSuspension ==
    /\ []((/\ call.phase = "done"
           /\ call.kind = "fresh"
           /\ call.session_id \in DOMAIN call.pending_before) =>
            /\ call.user_response = <<>>
            /\ pending_sessions =
                   IF call.outcome = "ClarificationOutput"
                   THEN Put(call.pending_before, call.session_id, call.state)
                   ELSE call.pending_before)
    /\ [][(call.phase = "idle" /\ call'.kind = "resume") =>
             /\ call'.session_id \in DOMAIN pending_sessions
             /\ call'.state = Merge(pending_sessions[call'.session_id],
                                    [user_response |-> call'.user_response])
             /\ call'.state.query = pending_sessions[call'.session_id].query]_vars

\* a new question on the session was answered while the session's entry for
\* an older, different query stayed in the registry
C39_Witness ==
    /\ call.phase = "done"
    /\ call.kind = "fresh"
    /\ call.outcome = "RAGResponse"
    /\ call.session_id \in DOMAIN call.pending_before
    /\ has_pending_session(call.session_id)
    /\ pending_sessions[call.session_id] = call.pending_before[call.session_id]
    /\ pending_sessions[call.session_id].query # call.query

\* C40 (as claimed): a CorrectiveEngine constructed with max_retries = 0
\* never rewrites: should_correct is false in every state of its loop, and
\* run_correction_loop returns retry_count 0 and correction_triggered false
\* whatever the retrievals give.
C40_ZeroDisablesCorrection ==
    (loop.pc # "idle" /\ loop.max_retries = 0) =>
        /\ loop.pc = "loop" => ~should_correct(loop.self, loop.state)
        /\ loop.retry_count = 0
        /\ ~loop.correction_triggered
        /\ (loop.pc = "done" /\ loop.outcome = "returned" =>
               /\ loop.result.retry_count = 0
               /\ ~loop.result.correction_triggered)

====
